---- MODULE Spec2Model ----
(**************************************************************************)
(* Slot lifecycle and port allocation of slot-cli                         *)
(* (src/cli/slot-cli/main.go), with the registry file it shares with the  *)
(* workspace tool of the MCP server (src/unnamed/part_010).               *)
(*                                                                        *)
(* Specifications:                                                        *)
(*   SpecAlloc     one allocation batch of scanAndAllocatePorts           *)
(*   SpecPorts     successive create/delete of slots with live ports      *)
(*   Spec          the lifecycle commands, run one after another          *)
(*   SpecClean     the clean scan with create, lock and the git state     *)
(*   SpecRegistry  rewrites of the registry file by the commands          *)
(*   SpecConc      two command invocations interleaving on the registry   *)
(*   SpecSync      sync and verify in worktrees that are worked in        *)
(*   SpecProbe     the probe loop of the allocator, one probe at a time   *)
(*   SpecVerify    verify while the registry file is edited by hand       *)
(*   SpecRewrite   the rewriting of one file of a slot, run and re-run    *)
(*   SpecNaming    container names of a project and two of its slots      *)
(*   SpecProjects  the commands that save the registry, and its projects  *)
(*   SpecClone     docker start, readiness poll and clone, file by file   *)
(*   SpecPoll      the readiness poll of one compose file, run to its end *)
(*   SpecRemote    clean in a repository with or without a remote main    *)
(*   SpecTorn      two invocations, the save being truncate, then write   *)
(*   SpecRace      delete or done split at its checks, with lock between  *)
(**************************************************************************)
EXTENDS Integers, FiniteSets, Sequences, TLC

(* ------------------------------ bounds -------------------------------- *)

\* highest slot number a create may use (numbers are unbounded in the code)
MaxSlotNum == 1

\* most slots that exist at once, counting what is left of a slot (directory,
\* branch, containers or registry entry)
MaxSlots == 2

\* number of consecutive main ports a project may declare, from BasePort up
MaxMainPorts == 2

\* number of ports above BasePort that some host process may listen on
MaxListenSpan == 3

(* ------------------------- program constants -------------------------- *)

\* basePort = 3000 // default
BasePort == 3000

(* ------------------------------ universe ------------------------------ *)

\* the project the commands are run in (filepath.Base of the main repo)
Project == "app"

\* names given to named slots
Names == {"auth"}

\* notes given to lock
Notes == {"wip"}

\* workspace names given to add_workspace
WorkspaceNames == {"ws"}

\* slot identifiers as cmdNew parses them: a number (name empty) or a name
\* (number 0)
Ids == [num : 1..MaxSlotNum, name : {""}] \cup [num : {0}, name : Names]

MainPortSet == BasePort .. (BasePort + MaxMainPorts - 1)

ListenSet == (BasePort + 1) .. (BasePort + MaxListenSpan)

VARIABLES
    mainPorts,   \* ports declared in the project's configuration (portVars)
    listening,   \* ports some process on the host is listening on
    batchNum,    \* slotNum of the allocation batch in progress
    portMap,     \* main port -> slot port, the batch's result so far
    probed,      \* main port -> the ports listening when it was allocated
    file,        \* the registry file ~/.config/slots/registry.json
    dirs,        \* slot name -> "none" | "worktree" | "plain" (slot path)
    branches,    \* branches of the main repository
    dirty,       \* worktrees with uncommitted changes
    commits,     \* slot name -> where the worktree's commits have got to
    containers,  \* slots whose compose containers are up
    tmux,        \* tmux sessions with no Claude running in them
    slotPorts,   \* slot name -> port map written into its configuration
    behind,      \* worktrees whose branch lacks commits of main
    rebase,      \* worktrees with a rebase stopped on a conflict
    originMain,  \* the repository has a remote branch origin/main (or master)
    probe,       \* SpecProbe: the main port and candidate of the probe loop
    bindRefused, \* SpecProbe: the host refuses every bind
    rewrite,     \* SpecRewrite, SpecNaming: the files a rewrite is run on
    clone,       \* SpecClone: the databases of a slot being started and cloned
    out,         \* exit code and report of the command that ran last
    pc,          \* SpecConc: invocation -> "start" | "loaded" | "saved"
    inv,         \* SpecConc: invocation -> the command it runs
    local,       \* SpecConc: invocation -> the registry it has loaded
    saves        \* SpecConc: what happened to the file, in order

vars == <<mainPorts, listening, batchNum, portMap, probed, file, dirs,
          branches, dirty, commits, containers, tmux, slotPorts, behind,
          rebase, originMain, probe, bindRefused, rewrite, clone, out, pc, inv, local, saves>>

allocVars == <<batchNum, portMap, probed>>

concVars == <<pc, inv, local, saves>>

worldVars == <<file, dirs, branches, dirty, commits, containers, tmux,
               slotPorts, behind, rebase>>

syncVars == <<behind, rebase>>

probeVars == <<probe, bindRefused>>

(* ------------------------------- names -------------------------------- *)

\* cmdNew: slotName = fmt.Sprintf("%s-%d"|"%s-%s", project, ...)
SlotName(id) ==
    IF id.name # "" THEN Project \o "-" \o id.name
    ELSE Project \o "-" \o ToString(id.num)

\* cmdNew: branchName = slotNameArg, or fmt.Sprintf("slot-%d", slotNum)
BranchName(id) ==
    IF id.name # "" THEN id.name ELSE "slot-" \o ToString(id.num)

SlotNames == {SlotName(id) : id \in Ids}

IdOf(slotName) == CHOOSE id \in Ids : SlotName(id) = slotName

\* getBranchName: the branch checked out in the slot path; "" when git fails
\* there (the path is not a worktree)
getBranchName(d, slotName) ==
    IF d[slotName] = "worktree" THEN BranchName(IdOf(slotName)) ELSE ""

\* findNextSlotNumber: 1 + the largest N with an entry <project>-N beside
\* the main repository
findNextSlotNumber(d) ==
    LET nums == {id.num : id \in {i \in Ids : i.name = "" /\ d[SlotName(i)] # "none"}}
    IN  IF nums = {} THEN 1
        ELSE (CHOOSE n \in nums : \A k \in nums : k <= n) + 1

(* ---------------------------- port allocator -------------------------- *)

\* isPortAvailable: net.Listen on the port succeeds
isPortAvailable(port, live) == port \notin live

\* the probe loop of scanAndAllocatePorts:
\*   for !isPortAvailable(slotPort) { slotPort++ }
RECURSIVE probeLoop(_, _)
probeLoop(slotPort, live) ==
    IF isPortAvailable(slotPort, live) THEN slotPort
    ELSE probeLoop(slotPort + 1, live)

\* one iteration of "for mainPort, varName := range portVars"
allocateOne(mainPort, slotNum, live) == probeLoop(mainPort + slotNum, live)

\* scanAndAllocatePorts with the host's listening ports fixed over the batch
scanAndAllocatePorts(ports, slotNum, live) ==
    [mainPort \in ports |-> allocateOne(mainPort, slotNum, live)]

Range(f) == {f[x] : x \in DOMAIN f}

Injective(f) == \A a, b \in DOMAIN f : a # b => f[a] # f[b]

(* ------------------------------ registry ------------------------------ *)

\* type Registry with maps made by make(...)
EmptyRegistry == [Groups |-> {}, Projects |-> <<>>, Slots |-> <<>>]

\* no file at registryPath
NoFile == [exists |-> FALSE, parses |-> FALSE, keys |-> {}, groups |-> {},
           projects |-> <<>>, slots |-> <<>>, workspaces |-> {}]

\* a file at registryPath whose bytes are not a JSON document: one that
\* os.WriteFile has truncated and not yet written, or written only in part
Unparseable == [NoFile EXCEPT !.exists = TRUE]

\* loadRegistry: the three maps of the file, nil maps replaced by empty ones;
\* every other key of the file is not part of type Registry; an empty
\* registry when the file cannot be read or json.Unmarshal fails
loadRegistry(f) ==
    IF ~f.exists \/ ~f.parses THEN EmptyRegistry
    ELSE [Groups   |-> IF "groups"   \in f.keys THEN f.groups   ELSE {},
          Projects |-> IF "projects" \in f.keys THEN f.projects ELSE <<>>,
          Slots    |-> IF "slots"    \in f.keys THEN f.slots    ELSE <<>>]

\* saveRegistry: json.MarshalIndent(reg) replaces the whole file; groups has
\* omitempty
saveRegistry(reg) ==
    [exists     |-> TRUE,
     parses     |-> TRUE,
     keys       |-> {"projects", "slots"} \cup
                    (IF reg.Groups # {} THEN {"groups"} ELSE {}),
     groups     |-> reg.Groups,
     projects   |-> reg.Projects,
     slots      |-> reg.Slots,
     workspaces |-> {}]

\* map without one key: delete(reg.Slots, slotName)
Without(f, k) == [x \in DOMAIN f \ {k} |-> f[x]]

\* type SlotConfig as updateRegistryFull fills it (CreatedAt left out)
SlotConfig(project, number, name, branch) ==
    [Project |-> project, Number |-> number, Name |-> name,
     Branch |-> branch, Locked |-> FALSE, LockNote |-> ""]

\* updateRegistryFull: load, set the entry, save
updateRegistryFull(f, slotName, project, number, name, branch) ==
    LET reg == loadRegistry(f)
    IN  saveRegistry([reg EXCEPT !.Slots =
            Without(reg.Slots, slotName) @@
            (slotName :> SlotConfig(project, number, name, branch))])

\* removeFromRegistry: load, delete the entry, save
removeFromRegistry(f, slotName) ==
    LET reg == loadRegistry(f)
    IN  saveRegistry([reg EXCEPT !.Slots = Without(reg.Slots, slotName)])

\* "if slot, ok := reg.Slots[slotName]; ok && slot.Locked"
Locked(reg, slotName) ==
    slotName \in DOMAIN reg.Slots /\ reg.Slots[slotName].Locked

(* --------------------------- SpecAlloc ------------------------------- *)

\* no command has run since the world last changed under it
NoOut == [cmd |-> "", slot |-> "", force |-> FALSE, exit |-> 0,
          report |-> <<>>, lost |-> FALSE, do |-> FALSE, orphans |-> {},
          merge |-> ""]

\* no probe loop is running
NoProbe == [mainPort |-> 0, slotPort |-> 0]

\* no file is being rewritten
NoRewrite == <<>>

\* no database is being started or cloned
NoClone == <<>>

RestInit ==
    /\ file = NoFile
    /\ dirs = [s \in SlotNames |-> "none"]
    /\ branches = {}
    /\ dirty = {}
    /\ commits = [s \in SlotNames |-> "none"]
    /\ containers = {}
    /\ tmux = {}
    /\ slotPorts = [s \in SlotNames |-> <<>>]
    /\ behind = {}
    /\ rebase = {}
    /\ originMain = TRUE
    /\ out = NoOut

\* no rewrite is being followed
RewriteIdle == rewrite = NoRewrite /\ clone = NoClone

\* no probe loop is being stepped through
ProbeIdle ==
    /\ probe = NoProbe
    /\ bindRefused = FALSE

ConcIdle ==
    /\ pc = <<>>
    /\ inv = <<>>
    /\ local = <<>>
    /\ saves = <<>>

AllocInit ==
    /\ mainPorts \in (SUBSET MainPortSet) \ {{}}
    /\ listening \in SUBSET ListenSet
    /\ batchNum \in 1..MaxSlotNum
    /\ portMap = <<>>
    /\ probed = <<>>
    /\ RestInit
    /\ RewriteIdle
    /\ ProbeIdle
    /\ ConcIdle

\* one iteration of the allocation loop of scanAndAllocatePorts; Go ranges
\* over the map portVars in an unspecified order
AllocatePort(mainPort) ==
    /\ mainPort \in mainPorts \ DOMAIN portMap
    /\ portMap' = portMap @@ (mainPort :> allocateOne(mainPort, batchNum, listening))
    /\ probed' = probed @@ (mainPort :> listening)
    /\ UNCHANGED <<mainPorts, originMain, rewrite, clone, probeVars, listening, batchNum, worldVars, out, concVars>>

\* a process on the host starts listening on a port
ListenStart(port) ==
    /\ port \in ListenSet \ listening
    /\ listening' = listening \cup {port}
    /\ UNCHANGED <<mainPorts, originMain, rewrite, clone, probeVars, allocVars, worldVars, out, concVars>>

\* a process on the host stops listening
ListenStop(port) ==
    /\ port \in listening
    /\ listening' = listening \ {port}
    /\ UNCHANGED <<mainPorts, originMain, rewrite, clone, probeVars, allocVars, worldVars, out, concVars>>

AllocNext ==
    \/ \E mainPort \in MainPortSet : AllocatePort(mainPort)
    \/ \E port \in ListenSet : ListenStart(port)
    \/ \E port \in ListenSet : ListenStop(port)

SpecAlloc == AllocInit /\ [][AllocNext]_vars

\* C1: the port map of one allocation batch is injective and holds no slot
\* port that was listening on the host when it was allocated.
C1_BatchInjectiveAndFree ==
    /\ Injective(portMap)
    /\ \A mainPort \in DOMAIN portMap : portMap[mainPort] \notin probed[mainPort]

\* C3: in one allocation batch no slot port equals a discovered main port and
\* no slot port equals a slot port assigned earlier in the batch.
C3_NoMainPortNoRepeat ==
    /\ \A mainPort \in DOMAIN portMap : portMap[mainPort] \notin mainPorts
    /\ \A a, b \in DOMAIN portMap : a # b => portMap[a] # portMap[b]

(* ------------------------ lifecycle commands -------------------------- *)

\* group id detectGroupFromPath finds in the project's path
ProjectGroup == "piber"

\* the main repository's path, /Projects/<owner>/<project>, as its components
MainRepo == <<"Projects", ProjectGroup, Project>>

\* tmux session names
Sessions == {"t1"}

\* the argument of "new": a number, a name, or nothing (auto-increment)
NewArgs == Ids \cup {[num |-> 0, name |-> ""]}

\* os.Exit(code), or return (code 0), of command cmd run for slotName; lost
\* tells whether the command deleted a branch holding commits that are on no
\* remote branch
Done(cmd, slotName, force, code, lost) ==
    out' = [NoOut EXCEPT !.cmd = cmd, !.slot = slotName, !.force = force,
                         !.exit = code, !.lost = lost]

Exit(cmd, slotName, force, code) == Done(cmd, slotName, force, code, FALSE)

\* stopDocker: docker compose down -v for every compose file under the path
stopDocker(c, slotName) == c \ {slotName}

\* an init that registers the project again when it is already registered
cmdInit_Overwrites ==
    LET reg == loadRegistry(file)
    IN  /\ file' = saveRegistry(
                    [reg EXCEPT !.Groups = reg.Groups \cup {ProjectGroup},
                                !.Projects = Without(reg.Projects, Project) @@
                                    (Project :> [BasePort |-> BasePort,
                                                 Path |-> MainRepo,
                                                 Group |-> ProjectGroup])])
        /\ Exit("init", "", FALSE, 0)
        /\ UNCHANGED <<mainPorts, originMain, rewrite, clone, probeVars, listening, allocVars, dirs, branches, dirty,
                       commits, containers, tmux, slotPorts, syncVars, concVars>>

\* cmdInit: register the project of the current directory
cmdInit ==
    LET reg == loadRegistry(file)
    IN  /\ IF Project \in DOMAIN reg.Projects
           THEN UNCHANGED file
           ELSE file' = saveRegistry(
                    [reg EXCEPT !.Groups = reg.Groups \cup {ProjectGroup},
                                !.Projects = reg.Projects @@
                                    (Project :> [BasePort |-> BasePort,
                                                 Path |-> MainRepo,
                                                 Group |-> ProjectGroup])])
        /\ Exit("init", "", FALSE, 0)
        /\ UNCHANGED <<mainPorts, originMain, rewrite, clone, probeVars, listening, allocVars, dirs, branches, dirty,
                       commits, containers, tmux, slotPorts, syncVars, concVars>>

\* something of the slot exists: its path, branch, containers or entry
InUse(slotName) ==
    \/ dirs[slotName] # "none"
    \/ BranchName(IdOf(slotName)) \in branches
    \/ slotName \in containers
    \/ slotName \in DOMAIN file.slots

\* an existence check that only knows worktrees
pathExists_OnlyWorktree(d, slotName) == d[slotName] = "worktree"

\* "Check if exists": os.Stat(slotPath) succeeds
pathExists(d, slotName) == d[slotName] # "none"

\* cmdNew, run in the main repository
cmdNew(arg) ==
    LET slotNum    == IF arg.name = "" /\ arg.num = 0
                      THEN findNextSlotNumber(dirs) ELSE arg.num
        id         == [num |-> slotNum, name |-> arg.name]
        slotName   == SlotName(id)
        branchName == BranchName(id)
    IN
    /\ id \in Ids
    /\ InUse(slotName) \/ Cardinality({s \in SlotNames : InUse(s)}) < MaxSlots
    /\ IF pathExists(dirs, slotName)
       THEN \* "Error: Slot %s already exists"
            /\ Exit("new", slotName, FALSE, 1)
            /\ UNCHANGED worldVars
       ELSE \E copied, rewrote \in BOOLEAN :
            LET \* git worktree add <path> -b <branch>; its error is ignored
                added      == branchName \notin branches
                \* copyGitignored creates the path when it copies a file
                kind       == IF added THEN "worktree"
                              ELSE IF copied THEN "plain" ELSE "none"
                dirs1      == [dirs EXCEPT ![slotName] = kind]
                portOffset == IF slotNum = 0 THEN findNextSlotNumber(dirs1)
                              ELSE slotNum
                ports      == scanAndAllocatePorts(mainPorts, portOffset, listening)
            IN
            \* updateConfigFiles and updateDockerComposeFiles rewrite the
            \* package.json, .mcp.json and docker-compose.yml of the
            \* worktree when these name a main port or a container
            /\ rewrote => (kind = "worktree" /\ DOMAIN ports # {})
            /\ dirs' = dirs1
            /\ branches' = branches \cup {branchName}
            /\ commits' = [commits EXCEPT ![slotName] = "none"]
            /\ dirty' = IF rewrote THEN dirty \cup {slotName}
                         ELSE dirty \ {slotName}
            /\ behind' = behind \ {slotName}
            /\ rebase' = rebase \ {slotName}
            /\ slotPorts' = IF kind # "none" /\ DOMAIN ports # {}
                            THEN [slotPorts EXCEPT ![slotName] = ports]
                            ELSE slotPorts
            \* startDockerAndClone, only when len(portMap) > 0
            /\ containers' = IF kind = "worktree" /\ DOMAIN ports # {}
                             THEN containers \cup {slotName} ELSE containers
            /\ file' = updateRegistryFull(file, slotName, Project, slotNum,
                                          arg.name, branchName)
            /\ Exit("new", slotName, FALSE, 0)
            /\ UNCHANGED tmux
    /\ UNCHANGED <<mainPorts, originMain, rewrite, clone, probeVars, listening, allocVars, concVars>>

\* what "git worktree remove <path> --force" leaves of the slot path
worktreeRemove(d, slotName) ==
    IF d[slotName] = "worktree" THEN [d EXCEPT ![slotName] = "none"] ELSE d

\* the removal steps shared by cmdDelete, cmdDone and cmdClean: stop docker,
\* remove the worktree, delete the branch, remove the registry entry
RemoveSlot(slotName) ==
    /\ containers' = stopDocker(containers, slotName)
    /\ dirs' = worktreeRemove(dirs, slotName)
    /\ branches' = branches \ {getBranchName(dirs, slotName)}
    /\ dirty' = IF dirs[slotName] = "worktree" THEN dirty \ {slotName} ELSE dirty
    /\ commits' = IF dirs[slotName] = "worktree"
                  THEN [commits EXCEPT ![slotName] = "none"] ELSE commits
    /\ slotPorts' = IF dirs[slotName] = "worktree"
                    THEN [slotPorts EXCEPT ![slotName] = <<>>] ELSE slotPorts
    /\ behind' = IF dirs[slotName] = "worktree" THEN behind \ {slotName} ELSE behind
    /\ rebase' = IF dirs[slotName] = "worktree" THEN rebase \ {slotName} ELSE rebase
    /\ file' = removeFromRegistry(file, slotName)

\* the worktree's branch holds commits that are on no remote branch
LocalOnly(slotName) ==
    dirs[slotName] = "worktree" /\ commits[slotName] \in {"local", "ahead"}

\* "git status --porcelain" in the slot path prints something
Uncommitted(slotName) == dirs[slotName] = "worktree" /\ slotName \in dirty

\* cmdDelete with the uncommitted-changes check left out
deleteBlocked_NoDirtyCheck(reg, slotName, force) ==
    Locked(reg, slotName)

\* cmdDelete with --force overriding the lock
deleteBlocked_ForceOverridesLock(reg, slotName, force) ==
    (Locked(reg, slotName) \/ Uncommitted(slotName)) /\ ~force

\* cmdDelete also refusing, without --force, a slot with unpushed commits
deleteBlocked_AlsoUnpushed(reg, slotName, force) ==
    \/ Locked(reg, slotName)
    \/ (Uncommitted(slotName) \/ LocalOnly(slotName)) /\ ~force

\* the checks of cmdDelete before its first destructive step: "Check lock"
\* and "Check for uncommitted changes"
deleteBlocked(reg, slotName, force) ==
    \/ Locked(reg, slotName)
    \/ Uncommitted(slotName) /\ ~force

\* cmdDelete <N|name> [--force], run in the main repository
cmdDelete(id, force) ==
    LET slotName == SlotName(id)
        reg      == loadRegistry(file)
    IN
    /\ IF dirs[slotName] = "none"
       THEN /\ Exit("delete", slotName, force, 1)    \* "Slot %s not found"
            /\ UNCHANGED worldVars
       ELSE IF deleteBlocked(reg, slotName, force)
       THEN /\ Exit("delete", slotName, force, 1)    \* locked, or uncommitted
            /\ UNCHANGED worldVars
       ELSE /\ RemoveSlot(slotName)
            /\ Done("delete", slotName, force, 0, LocalOnly(slotName))
            /\ UNCHANGED tmux
    /\ UNCHANGED <<mainPorts, originMain, rewrite, clone, probeVars, listening, allocVars, concVars>>

\* the checks of cmdDone before "Stop docker first"
doneBlocked(reg, slotName, force) ==
    \/ Locked(reg, slotName)
    \/ Uncommitted(slotName) /\ ~force

\* a cmdDone that goes on to the clean-up although the merge failed
doneOnConflict_CarriesOn(slotName, force) ==
    /\ RemoveSlot(slotName)
    /\ out' = [NoOut EXCEPT !.cmd = "done", !.slot = slotName, !.force = force,
                            !.exit = 0, !.merge = "conflict"]
    /\ UNCHANGED tmux

\* cmdDone when git merge returns an error: "Merge conflict!", os.Exit(1);
\* docker was stopped before the merge
doneOnConflict(slotName, force) ==
    /\ containers' = stopDocker(containers, slotName)
    /\ out' = [NoOut EXCEPT !.cmd = "done", !.slot = slotName, !.force = force,
                            !.exit = 1, !.merge = "conflict"]
    /\ UNCHANGED <<file, dirs, branches, dirty, commits, tmux, slotPorts,
                   syncVars>>

\* cmdDone [--force], run in the worktree of slotName
cmdDone(slotName, force) ==
    LET reg == loadRegistry(file)
    IN
    /\ dirs[slotName] = "worktree"
    /\ IF doneBlocked(reg, slotName, force)
       THEN /\ Exit("done", slotName, force, 1)
            /\ UNCHANGED worldVars
       ELSE \E conflict \in BOOLEAN :
            \* git merge <branch> in the main repository
            /\ conflict => commits[slotName] # "none"
            /\ IF conflict
               THEN doneOnConflict(slotName, force)
               ELSE /\ RemoveSlot(slotName)
                    /\ out' = [NoOut EXCEPT !.cmd = "done", !.slot = slotName,
                                            !.force = force, !.merge = "ok"]
                    /\ UNCHANGED tmux
    /\ UNCHANGED <<mainPorts, originMain, rewrite, clone, probeVars, listening, allocVars, concVars>>

\* cmdLock [note] for the slot resolveSlotName names
cmdLock(slotName, note) ==
    LET reg == loadRegistry(file)
    IN
    /\ IF slotName \notin DOMAIN reg.Slots
       THEN /\ Exit("lock", slotName, FALSE, 1)
            /\ UNCHANGED file
       ELSE /\ file' = saveRegistry([reg EXCEPT
                         !.Slots[slotName].Locked = TRUE,
                         !.Slots[slotName].LockNote = note])
            /\ Exit("lock", slotName, FALSE, 0)
    /\ UNCHANGED <<mainPorts, originMain, rewrite, clone, probeVars, listening, allocVars, dirs, branches, dirty,
                   commits, containers, tmux, slotPorts, syncVars, concVars>>

\* cmdUnlock for the slot resolveSlotName names
cmdUnlock(slotName) ==
    LET reg == loadRegistry(file)
    IN
    /\ IF slotName \notin DOMAIN reg.Slots
       THEN /\ Exit("unlock", slotName, FALSE, 1)
            /\ UNCHANGED file
       ELSE IF ~reg.Slots[slotName].Locked
       THEN /\ Exit("unlock", slotName, FALSE, 0)    \* "Slot '%s' is not locked"
            /\ UNCHANGED file
       ELSE /\ file' = saveRegistry([reg EXCEPT
                         !.Slots[slotName].Locked = FALSE,
                         !.Slots[slotName].LockNote = ""])
            /\ Exit("unlock", slotName, FALSE, 0)
    /\ UNCHANGED <<mainPorts, originMain, rewrite, clone, probeVars, listening, allocVars, dirs, branches, dirty,
                   commits, containers, tmux, slotPorts, syncVars, concVars>>

(* ------------------------------- clean -------------------------------- *)

\* "git log origin/<branch>..HEAD --oneline" prints something; it prints
\* nothing when the remote branch does not exist
Unpushed(slotName) == commits[slotName] = "ahead"

\* "git log origin/main..HEAD --oneline", or with origin/master when that
\* printed nothing, prints something; a query that fails prints nothing
Unmerged(slotName) ==
    originMain /\ commits[slotName] \in {"local", "ahead", "pushed"}

\* cmdClean asking about unmerged commits before uncommitted changes
Classify_UnmergedFirst(reg, slotName) ==
    IF Locked(reg, slotName) THEN "locked"
    ELSE IF Unmerged(slotName) THEN "unmerged"
    ELSE IF Uncommitted(slotName) THEN "dirty"
    ELSE IF Unpushed(slotName) THEN "unpushed"
    ELSE "clean"

\* the class cmdClean prints for one worktree
Classify(reg, slotName) ==
    IF Locked(reg, slotName) THEN "locked"
    ELSE IF Uncommitted(slotName) THEN "dirty"
    ELSE IF Unpushed(slotName) THEN "unpushed"
    ELSE IF Unmerged(slotName) THEN "unmerged"
    ELSE "clean"

\* the directories beside the main repository that cmdClean takes for
\* worktrees: a "-" in the name and a .git file
Worktrees == {s \in SlotNames : dirs[s] = "worktree"}

\* safeWorktrees of cmdClean
safeWorktrees(reg, force) ==
    {s \in Worktrees : \/ Classify(reg, s) = "clean"
                       \/ Classify(reg, s) = "unmerged" /\ force}

\* an orphan scan that only looks for the directory
orphanSlots_DirectoryOnly(reg) ==
    {s \in DOMAIN reg.Slots : dirs[s] = "none"}

\* orphanSlots of cmdClean: "project not in registry", or "directory not
\* found" beside the registered project's path
orphanSlots(reg) ==
    {s \in DOMAIN reg.Slots :
        \/ reg.Slots[s].Project \notin DOMAIN reg.Projects
        \/ dirs[s] = "none"}

\* the "dry run" that leaves out the test of --do
cleanReturns_WithoutDo(safeCount, doClean) == safeCount = 0

\* cmdClean returns after the summary: "Nothing safe to clean", or the dry
\* run when --do was not given
cleanReturns(safeCount, doClean) == safeCount = 0 \/ ~doClean

\* cmdClean [--do] [--force], run in the main repository
cmdClean(doClean, force) ==
    LET reg     == loadRegistry(file)
        safe    == safeWorktrees(reg, force)
        orphans == orphanSlots(reg)
        gone    == orphans \cup safe
        safeCount == Cardinality(tmux) + Cardinality(safe) + Cardinality(orphans)
    IN
    /\ out' = [NoOut EXCEPT
                  !.cmd = "clean",
                  !.do = doClean,
                  !.report = [s \in Worktrees |-> Classify(reg, s)],
                  !.orphans = orphans,
                  !.lost = doClean /\ \E s \in safe : LocalOnly(s)]
    /\ IF cleanReturns(safeCount, doClean)
       THEN UNCHANGED worldVars
       ELSE /\ tmux' = {}
            \* removeFromRegistry once per orphan and per removed worktree
            /\ file' = IF gone = {} THEN file
                       ELSE saveRegistry([reg EXCEPT !.Slots =
                                [s \in DOMAIN reg.Slots \ gone |-> reg.Slots[s]]])
            /\ containers' = containers \ safe
            /\ dirs' = [s \in SlotNames |-> IF s \in safe THEN "none" ELSE dirs[s]]
            /\ branches' = branches \ {getBranchName(dirs, s) : s \in safe}
            /\ dirty' = dirty \ safe
            /\ commits' = [s \in SlotNames |-> IF s \in safe THEN "none" ELSE commits[s]]
            /\ slotPorts' = [s \in SlotNames |-> IF s \in safe THEN <<>> ELSE slotPorts[s]]
            /\ behind' = behind \ safe
            /\ rebase' = rebase \ safe
    /\ UNCHANGED <<mainPorts, originMain, rewrite, clone, probeVars, listening, allocVars, concVars>>

(* ---------------------- what happens outside slot-cli ----------------- *)

\* a file of the worktree is edited
EditFile(slotName) ==
    /\ dirs[slotName] = "worktree"
    /\ slotName \notin dirty
    /\ dirty' = dirty \cup {slotName}
    /\ out' = NoOut
    /\ UNCHANGED <<mainPorts, originMain, rewrite, clone, probeVars, listening, allocVars, file, dirs, branches,
                   commits, containers, tmux, slotPorts, syncVars, concVars>>

\* git commit -a in the worktree
Commit(slotName) ==
    /\ Uncommitted(slotName)
    /\ dirty' = dirty \ {slotName}
    /\ commits' = [commits EXCEPT ![slotName] =
                      IF @ \in {"none", "local"} THEN "local" ELSE "ahead"]
    /\ out' = NoOut
    /\ UNCHANGED <<mainPorts, originMain, rewrite, clone, probeVars, listening, allocVars, file, dirs, branches,
                   containers, tmux, slotPorts, syncVars, concVars>>

\* git push -u origin <branch> in the worktree
Push(slotName) ==
    /\ dirs[slotName] = "worktree"
    /\ commits[slotName] \in {"local", "ahead"}
    /\ commits' = [commits EXCEPT ![slotName] = "pushed"]
    /\ out' = NoOut
    /\ UNCHANGED <<mainPorts, originMain, rewrite, clone, probeVars, listening, allocVars, file, dirs, branches,
                   dirty, containers, tmux, slotPorts, syncVars, concVars>>

\* the pushed branch is merged into origin/main and fetched
MergeUpstream(slotName) ==
    /\ originMain
    /\ dirs[slotName] = "worktree"
    /\ commits[slotName] = "pushed"
    /\ commits' = [commits EXCEPT ![slotName] = "none"]
    /\ out' = NoOut
    /\ UNCHANGED <<mainPorts, originMain, rewrite, clone, probeVars, listening, allocVars, file, dirs, branches,
                   dirty, containers, tmux, slotPorts, syncVars, concVars>>

\* the slot path is deleted by hand (rm -rf)
RemoveDir(slotName) ==
    /\ dirs[slotName] # "none"
    /\ dirs' = [dirs EXCEPT ![slotName] = "none"]
    /\ dirty' = dirty \ {slotName}
    /\ commits' = [commits EXCEPT ![slotName] = "none"]
    /\ slotPorts' = [slotPorts EXCEPT ![slotName] = <<>>]
    /\ behind' = behind \ {slotName}
    /\ rebase' = rebase \ {slotName}
    /\ out' = NoOut
    /\ UNCHANGED <<mainPorts, originMain, rewrite, clone, probeVars, listening, allocVars, file, branches,
                   containers, tmux, concVars>>

\* a tmux session is opened
TmuxNew(session) ==
    /\ session \notin tmux
    /\ tmux' = tmux \cup {session}
    /\ out' = NoOut
    /\ UNCHANGED <<mainPorts, originMain, rewrite, clone, probeVars, listening, allocVars, file, dirs, branches,
                   dirty, commits, containers, slotPorts, syncVars, concVars>>

(* -------------------------------- Spec -------------------------------- *)

Init ==
    /\ mainPorts = {BasePort}
    /\ listening = {}
    /\ batchNum = 0
    /\ portMap = <<>>
    /\ probed = <<>>
    /\ RestInit
    /\ RewriteIdle
    /\ ProbeIdle
    /\ ConcIdle

Next ==
    \/ \E arg \in NewArgs : cmdNew(arg)
    \/ \E id \in Ids, force \in BOOLEAN : cmdDelete(id, force)
    \/ \E s \in SlotNames, force \in BOOLEAN : cmdDone(s, force)
    \/ \E s \in SlotNames, note \in Notes : cmdLock(s, note)
    \/ \E s \in SlotNames : cmdUnlock(s)
    \/ \E s \in SlotNames : EditFile(s)
    \/ \E s \in SlotNames : Commit(s)
    \/ \E s \in SlotNames : Push(s)
    \/ \E s \in SlotNames : RemoveDir(s)

\* create, delete, done, lock and unlock, one command at a time, while the
\* worktrees are worked in
Spec == Init /\ [][Next]_vars

\* what a command may not touch when it refuses to run
Kept == <<file, dirs, branches, containers>>

\* the lock flag as stored in the registry file
LockFlag(slotName) ==
    /\ file.exists
    /\ slotName \in DOMAIN file.slots
    /\ file.slots[slotName].Locked

\* nothing of the slot is left: path, branch, containers, registry entry
Removed(slotName) ==
    /\ dirs[slotName] = "none"
    /\ BranchName(IdOf(slotName)) \notin branches
    /\ slotName \notin containers
    /\ slotName \notin DOMAIN file.slots

\* nothing of the slot is left after the step
RemovedNext(slotName) ==
    /\ dirs'[slotName] = "none"
    /\ BranchName(IdOf(slotName)) \notin branches'
    /\ slotName \notin containers'
    /\ slotName \notin DOMAIN file'.slots

\* C4: delete without --force on a slot whose working copy has uncommitted
\* changes exits non-zero and leaves the registry, the slot directory, its
\* branch and its containers unchanged.
C4_DeleteDirtyRefused ==
    [][(/\ out'.cmd = "delete"
        /\ ~out'.force
        /\ dirs[out'.slot] = "worktree"
        /\ out'.slot \in dirty)
       => (out'.exit # 0 /\ UNCHANGED Kept)]_vars

\* C4 witness: delete without --force has just been refused on a registered,
\* unlocked slot with uncommitted changes and running containers
C4_Witness ==
    /\ out.cmd = "delete"
    /\ ~out.force
    /\ out.exit = 1
    /\ dirs[out.slot] = "worktree"
    /\ out.slot \in dirty
    /\ out.slot \in containers
    /\ out.slot \in DOMAIN file.slots
    /\ ~LockFlag(out.slot)

\* C5: while a slot's lock flag is set, delete and done, with or without
\* --force, exit non-zero and leave the slot's directory, branch, containers
\* and registry entry; they remove a slot only when its flag is not set.
C5_LockedNeverRemoved ==
    [][(/\ out'.cmd \in {"delete", "done"}
        /\ dirs[out'.slot] # "none"
        /\ LockFlag(out'.slot))
       => (out'.exit # 0 /\ UNCHANGED Kept)]_vars

\* C5 witness: delete --force has just been refused on a locked slot whose
\* worktree, branch, containers and registry entry are all still there
C5_Witness ==
    /\ out.cmd = "delete"
    /\ out.force
    /\ out.exit = 1
    /\ LockFlag(out.slot)
    /\ dirs[out.slot] = "worktree"
    /\ BranchName(IdOf(out.slot)) \in branches
    /\ out.slot \in containers

\* C8 as claimed: delete without --force on a slot whose branch has commits
\* that are not on its remote tracking branch exits non-zero and removes
\* nothing.
C8_DeleteUnpushedRefused ==
    [][(/\ out'.cmd = "delete"
        /\ ~out'.force
        /\ dirs[out'.slot] = "worktree"
        /\ commits[out'.slot] = "ahead")
       => (out'.exit # 0 /\ UNCHANGED Kept)]_vars

\* C8 as amended: delete without --force on a slot with commits that are on
\* no remote branch is refused exactly when the slot is locked or has
\* uncommitted changes; otherwise it exits zero and removes the directory,
\* the branch, the containers and the registry entry.
C8_DeleteUnpushedRemoves ==
    [][(/\ out'.cmd = "delete"
        /\ ~out'.force
        /\ dirs[out'.slot] = "worktree"
        /\ commits[out'.slot] \in {"local", "ahead"})
       => IF LockFlag(out'.slot) \/ out'.slot \in dirty
          THEN out'.exit # 0 /\ UNCHANGED Kept
          ELSE out'.exit = 0 /\ RemovedNext(out'.slot)]_vars

\* C8 witness: delete without --force has just removed a slot whose branch
\* held commits that were on no remote branch
C8_Witness ==
    /\ out.cmd = "delete"
    /\ ~out.force
    /\ out.exit = 0
    /\ out.lost
    /\ Removed(out.slot)

(* ------------------------------ SpecClean ----------------------------- *)

CleanNext ==
    \/ cmdInit
    \/ \E arg \in NewArgs : cmdNew(arg)
    \/ \E s \in SlotNames, note \in Notes : cmdLock(s, note)
    \/ \E doClean \in BOOLEAN, force \in BOOLEAN : cmdClean(doClean, force)
    \/ \E s \in SlotNames : EditFile(s)
    \/ \E s \in SlotNames : Commit(s)
    \/ \E s \in SlotNames : Push(s)
    \/ \E s \in SlotNames : MergeUpstream(s)
    \/ \E s \in SlotNames : RemoveDir(s)
    \/ \E session \in Sessions : TmuxNew(session)

\* init, create, lock and clean, one command at a time, while the worktrees
\* are worked in and directories are removed by hand
SpecClean == Init /\ [][CleanNext]_vars

\* the deletion-safety classes in priority order
ClassOrder == <<"locked", "dirty", "unpushed", "unmerged", "clean">>

\* class c applies to the worktree
Applies(c, slotName) ==
    CASE c = "locked"   -> LockFlag(slotName)
      [] c = "dirty"    -> slotName \in dirty
      [] c = "unpushed" -> commits[slotName] = "ahead"
      [] c = "unmerged" -> commits[slotName] # "none"
      [] c = "clean"    -> TRUE

\* C6 as claimed: no slot that is locked or dirty loses its directory, its
\* branch or its registry entry through clean, whatever the flags.
C6_CleanSparesLockedAndDirty ==
    [][out'.cmd = "clean" =>
        \A s \in SlotNames :
            (LockFlag(s) \/ (dirs[s] = "worktree" /\ s \in dirty)) =>
                /\ dirs'[s] = dirs[s]
                /\ (BranchName(IdOf(s)) \in branches
                        => BranchName(IdOf(s)) \in branches')
                /\ (s \in DOMAIN file.slots => s \in DOMAIN file'.slots)]_vars

PortsInit ==
    /\ mainPorts \in (SUBSET MainPortSet) \ {{}}
    /\ listening = {}
    /\ batchNum = 0
    /\ portMap = <<>>
    /\ probed = <<>>
    /\ RestInit
    /\ RewriteIdle
    /\ ProbeIdle
    /\ ConcIdle

PortsNext ==
    \/ \E arg \in NewArgs : cmdNew(arg)
    \/ \E id \in Ids, force \in BOOLEAN : cmdDelete(id, force)
    \/ \E port \in ListenSet : ListenStart(port)
    \/ \E port \in ListenSet : ListenStop(port)

\* slots of one project created and deleted one after another while services
\* on the host start and stop listening
SpecPorts == PortsInit /\ [][PortsNext]_vars

\* C2: for any two slots of the project that exist at the same time, no port
\* written into one slot's configuration equals a port written into the
\* other's or a main port of the project.
C2_SlotsShareNoPort ==
    \A s1, s2 \in SlotNames :
        (s1 # s2 /\ dirs[s1] = "worktree" /\ dirs[s2] = "worktree") =>
            /\ Range(slotPorts[s1]) \cap Range(slotPorts[s2]) = {}
            /\ Range(slotPorts[s1]) \cap mainPorts = {}

(* ---------------------------- SpecRegistry ---------------------------- *)

\* getRegistry of the MCP server: the parsed file with every key it holds,
\* or { projects: {}, slots: {} } when it cannot be read or parsed
getRegistry(f) ==
    IF f.exists /\ f.parses THEN f
    ELSE [exists |-> TRUE, parses |-> TRUE, keys |-> {"projects", "slots"},
          groups |-> {}, projects |-> <<>>, slots |-> <<>>, workspaces |-> {}]

\* the add_workspace tool of the MCP server: read the file, set
\* registry.workspaces[name], write the whole object back
add_workspace(name) ==
    LET registry == getRegistry(file)
    IN  /\ file' = [registry EXCEPT !.keys = @ \cup {"workspaces"},
                                    !.workspaces = @ \cup {name}]
        /\ out' = NoOut
        /\ UNCHANGED <<mainPorts, originMain, rewrite, clone, probeVars, listening, allocVars, dirs, branches, dirty,
                       commits, containers, tmux, slotPorts, syncVars, concVars>>

\* the remove_workspace tool of the MCP server
remove_workspace(name) ==
    LET registry == getRegistry(file)
    IN  /\ "workspaces" \in registry.keys
        /\ name \in registry.workspaces
        /\ file' = [registry EXCEPT !.workspaces = @ \ {name}]
        /\ out' = NoOut
        /\ UNCHANGED <<mainPorts, originMain, rewrite, clone, probeVars, listening, allocVars, dirs, branches, dirty,
                       commits, containers, tmux, slotPorts, syncVars, concVars>>

RegistryNext ==
    \/ cmdInit
    \/ \E arg \in NewArgs : cmdNew(arg)
    \/ \E id \in Ids, force \in BOOLEAN : cmdDelete(id, force)
    \/ \E s \in SlotNames, note \in Notes : cmdLock(s, note)
    \/ \E s \in SlotNames : cmdUnlock(s)
    \/ \E name \in WorkspaceNames : add_workspace(name)
    \/ \E name \in WorkspaceNames : remove_workspace(name)

\* the commands that write the registry file, and the workspace tools that
\* write the same file
SpecRegistry == Init /\ [][RegistryNext]_vars

\* C10 as claimed: when a slot-cli command rewrites the registry file, every
\* field it does not itself change is still there with the same value, the
\* workspaces map written by the workspace tool included.
C10_RewriteKeepsUnknownFields ==
    [][(out'.cmd # "" /\ file' # file) =>
        /\ ("workspaces" \in file.keys => "workspaces" \in file'.keys)
        /\ file'.workspaces = file.workspaces]_vars

(* ------------------------------ SpecConc ------------------------------ *)

\* the two command invocations
Invocations == {1, 2}

\* what an invocation does to the registry: create's updateRegistryFull,
\* lock, unlock, and the removeFromRegistry of delete, done and clean
Commands ==
    [op : {"new", "lock", "unlock", "remove"}, slot : SlotNames]

\* the registry an invocation computes from the one it loaded, and whether
\* it saves at all
Computed(c, reg) ==
    CASE c.op = "new" ->
            [reg EXCEPT !.Slots = Without(reg.Slots, c.slot) @@
                (c.slot :> SlotConfig(Project, IdOf(c.slot).num,
                                      IdOf(c.slot).name,
                                      BranchName(IdOf(c.slot))))]
      [] c.op = "remove" ->
            [reg EXCEPT !.Slots = Without(reg.Slots, c.slot)]
      [] c.op = "lock" ->
            [reg EXCEPT !.Slots[c.slot].Locked = TRUE,
                        !.Slots[c.slot].LockNote = "wip"]
      [] c.op = "unlock" ->
            [reg EXCEPT !.Slots[c.slot].Locked = FALSE,
                        !.Slots[c.slot].LockNote = ""]

\* cmdLock and cmdUnlock return before saveRegistry when the slot is not in
\* the registry, cmdUnlock also when it is not locked
Saves(c, reg) ==
    CASE c.op \in {"new", "remove"} -> TRUE
      [] c.op = "lock"   -> c.slot \in DOMAIN reg.Slots
      [] c.op = "unlock" -> c.slot \in DOMAIN reg.Slots /\ reg.Slots[c.slot].Locked

\* the registry a save would write if it read the file again under a lock
ToSave_Reloaded(p) == Computed(inv[p], loadRegistry(file))

\* the registry invocation p passes to saveRegistry
ToSave(p) == Computed(inv[p], local[p])

\* registries the file may hold when the invocations start
StartSlots ==
    {f \in [SlotNames -> {"absent", "unlocked", "locked"}] : TRUE}

StartFile(f) ==
    saveRegistry([Groups |-> {}, Projects |-> <<>>,
        Slots |-> [s \in {x \in SlotNames : f[x] # "absent"} |->
            [SlotConfig(Project, IdOf(s).num, IdOf(s).name, BranchName(IdOf(s)))
                EXCEPT !.Locked = (f[s] = "locked"),
                       !.LockNote = IF f[s] = "locked" THEN "wip" ELSE ""]]])

ConcInit ==
    /\ mainPorts = {BasePort}
    /\ listening = {}
    /\ batchNum = 0
    /\ portMap = <<>>
    /\ probed = <<>>
    /\ \E f \in StartSlots : file = StartFile(f)
    /\ dirs = [s \in SlotNames |-> "none"]
    /\ branches = {}
    /\ dirty = {}
    /\ commits = [s \in SlotNames |-> "none"]
    /\ containers = {}
    /\ tmux = {}
    /\ slotPorts = [s \in SlotNames |-> <<>>]
    /\ behind = {}
    /\ rebase = {}
    /\ originMain = TRUE
    /\ probe = NoProbe
    /\ bindRefused = FALSE
    /\ rewrite = NoRewrite
    /\ clone = NoClone
    /\ out = NoOut
    /\ pc = [p \in Invocations |-> "start"]
    /\ inv \in [Invocations -> Commands]
    /\ local = [p \in Invocations |-> EmptyRegistry]
    /\ saves = <<>>

\* reg := loadRegistry()
Load(p) ==
    /\ pc[p] = "start"
    /\ local' = [local EXCEPT ![p] = loadRegistry(file)]
    /\ pc' = [pc EXCEPT ![p] = "loaded"]
    /\ saves' = Append(saves, [p |-> p, ev |-> "load",
                                parsed |-> file.exists /\ file.parses])
    /\ UNCHANGED <<mainPorts, originMain, rewrite, clone, probeVars, listening, allocVars, worldVars, out, inv>>

\* saveRegistry(reg), the whole file replaced
Save(p) ==
    /\ pc[p] = "loaded"
    /\ Saves(inv[p], local[p])
    /\ file' = saveRegistry(ToSave(p))
    /\ pc' = [pc EXCEPT ![p] = "saved"]
    /\ saves' = Append(saves, [p |-> p, ev |-> "save"])
    /\ UNCHANGED <<mainPorts, originMain, rewrite, clone, probeVars, listening, allocVars, dirs, branches, dirty,
                   commits, containers, tmux, slotPorts, syncVars, out, inv, local>>

\* the command returns without saving
Return(p) ==
    /\ pc[p] = "loaded"
    /\ ~Saves(inv[p], local[p])
    /\ pc' = [pc EXCEPT ![p] = "returned"]
    /\ UNCHANGED <<mainPorts, originMain, rewrite, clone, probeVars, listening, allocVars, worldVars, out, inv,
                   local, saves>>

ConcNext ==
    \/ \E p \in Invocations : Load(p)
    \/ \E p \in Invocations : Save(p)
    \/ \E p \in Invocations : Return(p)

\* two invocations whose registry steps interleave freely
SpecConc == ConcInit /\ [][ConcNext]_vars

\* both invocations loaded the registry before either saved it, and both
\* have saved
BothLoadedThenBothSaved ==
    /\ Len(saves) = 4
    /\ saves[1].ev = "load" /\ saves[2].ev = "load"
    /\ saves[3].ev = "save" /\ saves[4].ev = "save"

\* the entry of a slot in a registry, "absent" when it has none
Entry(slots, slotName) ==
    IF slotName \in DOMAIN slots THEN slots[slotName] ELSE "absent"

\* C9: when both invocations load the registry before either saves it, the
\* file ends as the later saver wrote it from what it had loaded: the
\* earlier saver's change is absent, every entry the later saver does not
\* write itself being as it was before the earlier save.
C9_LaterSaveOverwrites ==
    BothLoadedThenBothSaved =>
        LET earlier == saves[3].p
            later   == saves[4].p
            before  == local[later].Slots
        IN  /\ local[earlier] = local[later]
            /\ loadRegistry(file) = Computed(inv[later], local[later])
            /\ \A s \in SlotNames \ {inv[later].slot} :
                    Entry(file.slots, s) = Entry(before, s)

\* C9 witness: the earlier invocation created the entry of a slot, the later
\* one locked another slot, and the created entry is not in the file
C9_Witness ==
    /\ BothLoadedThenBothSaved
    /\ inv[saves[3].p].op = "new"
    /\ inv[saves[4].p].op = "lock"
    /\ inv[saves[3].p].slot # inv[saves[4].p].slot
    /\ inv[saves[3].p].slot \notin DOMAIN file.slots

(* ------------------- create, delete and done: the slot ---------------- *)

\* after the step the slot is active: its path is a worktree, its branch
\* exists, and its registry entry names the project, number, name and branch
ActiveNext(slotName) ==
    /\ dirs'[slotName] = "worktree"
    /\ BranchName(IdOf(slotName)) \in branches'
    /\ slotName \in DOMAIN file'.slots
    /\ file'.slots[slotName].Project = Project
    /\ file'.slots[slotName].Number = IdOf(slotName).num
    /\ file'.slots[slotName].Name = IdOf(slotName).name
    /\ file'.slots[slotName].Branch = BranchName(IdOf(slotName))

\* after the step the slot is absent: no path, no branch, no registry entry
AbsentNext(slotName) ==
    /\ dirs'[slotName] = "none"
    /\ BranchName(IdOf(slotName)) \notin branches'
    /\ slotName \notin DOMAIN file'.slots

\* C11 as claimed: whenever create reports success, or writes the registry,
\* the slot is active: its directory is a working copy of the project, its
\* branch exists and its registry entry agrees with both.
C11_CreateSuccessIsActive ==
    [][(out'.cmd = "new" /\ (out'.exit = 0 \/ file' # file))
        => ActiveNext(out'.slot)]_vars

\* C12: create on a target path that already exists exits non-zero and
\* changes nothing: no branch, working copy, copied or rewritten file,
\* container or registry entry.
C12_CreateOnExistingPathRefused ==
    [][(out'.cmd = "new" /\ dirs[out'.slot] # "none")
        => (out'.exit # 0 /\ UNCHANGED worldVars)]_vars

\* C12 witness: create was refused for a path that exists without being a
\* worktree
C12_Witness ==
    /\ out.cmd = "new"
    /\ out.exit = 1
    /\ dirs[out.slot] = "plain"

\* C13 as claimed: whenever delete or done reports success, the slot's
\* directory, branch and registry entry are all gone.
C13_RemovalSuccessIsAbsent ==
    [][(out'.cmd \in {"delete", "done"} /\ out'.exit = 0)
        => AbsentNext(out'.slot)]_vars

\* C14: when the merge of done reports a conflict, done exits non-zero and
\* the slot is still active: directory, branch and registry entry are
\* untouched and agree.
C14_DoneConflictKeepsSlot ==
    [][(out'.cmd = "done" /\ out'.merge = "conflict")
        => /\ out'.exit # 0
           /\ UNCHANGED <<file, dirs, branches>>
           /\ ActiveNext(out'.slot)]_vars

\* C14 witness: done stopped on a merge conflict in a slot with commits
C14_Witness ==
    /\ out.cmd = "done"
    /\ out.merge = "conflict"
    /\ out.exit = 1
    /\ dirs[out.slot] = "worktree"
    /\ commits[out.slot] # "none"
    /\ out.slot \in DOMAIN file.slots

(* --------------------------- lock and unlock -------------------------- *)

\* a registry entry with its lock flag and lock note blanked
Unflagged(entry) == [entry EXCEPT !.Locked = FALSE, !.LockNote = ""]

\* C16 as claimed: lock and unlock change nothing except the lock flag and
\* lock note of the targeted slot's registry entry: directory, branch and
\* containers, the entry's other fields, and everything else the registry
\* file holds are as before.
C16_LockChangesOnlyTheFlag ==
    [][out'.cmd \in {"lock", "unlock"} =>
        /\ UNCHANGED <<dirs, branches, containers, dirty, commits, slotPorts>>
        /\ file'.exists = file.exists
        /\ file'.keys = file.keys
        /\ file'.groups = file.groups
        /\ file'.projects = file.projects
        /\ file'.workspaces = file.workspaces
        /\ DOMAIN file'.slots = DOMAIN file.slots
        /\ \A s \in DOMAIN file.slots :
              IF s = out'.slot
              THEN Unflagged(file'.slots[s]) = Unflagged(file.slots[s])
              ELSE file'.slots[s] = file.slots[s]]_vars

(* ------------------------- clean: report only ------------------------- *)

\* C18: clean without --do only reports: no tmux session is killed, no
\* working copy or branch removed, no container stopped and the registry
\* file is unchanged, whatever it found.
C18_CleanDryRunChangesNothing ==
    [][(out'.cmd = "clean" /\ ~out'.do) => UNCHANGED worldVars]_vars

\* C18 witness: a dry run that found a session to kill, a worktree safe to
\* remove and an orphan entry, all of them still there
C18_Witness ==
    /\ out.cmd = "clean"
    /\ ~out.do
    /\ tmux # {}
    /\ out.orphans # {}
    /\ out.orphans \subseteq DOMAIN file.slots
    /\ \E s \in DOMAIN out.report :
          out.report[s] = "clean" /\ dirs[s] = "worktree"

currentBranch(slotName) ==
    IF slotName \in rebase THEN "" ELSE getBranchName(dirs, slotName)

\* a cmdSync that runs "git rebase --abort" before it exits
syncOnConflict_Aborts(slotName) ==
    /\ out' = [NoOut EXCEPT !.cmd = "sync", !.slot = slotName, !.exit = 1,
                            !.merge = "conflict"]
    /\ UNCHANGED worldVars

\* cmdSync when git rebase returns an error: "Rebase conflict detected!",
\* the recovery commands are printed, os.Exit(1); the rebase is left stopped
\* with the conflicting files in the working tree
syncOnConflict(slotName) ==
    /\ rebase' = rebase \cup {slotName}
    /\ dirty' = dirty \cup {slotName}
    /\ out' = [NoOut EXCEPT !.cmd = "sync", !.slot = slotName, !.exit = 1,
                            !.merge = "conflict"]
    /\ UNCHANGED <<file, dirs, branches, commits, containers, tmux, slotPorts,
                   behind>>

\* cmdSync, run in the worktree of slotName
cmdSync(slotName) ==
    /\ dirs[slotName] = "worktree"
    /\ IF currentBranch(slotName) = ""
       THEN /\ Exit("sync", slotName, FALSE, 1)   \* "could not detect current branch"
            /\ UNCHANGED worldVars
       ELSE IF Uncommitted(slotName)
       THEN /\ Exit("sync", slotName, FALSE, 1)   \* "uncommitted changes detected"
            /\ UNCHANGED worldVars
       ELSE IF slotName \notin behind
       THEN /\ Exit("sync", slotName, FALSE, 0)   \* "Already up to date with main"
            /\ UNCHANGED worldVars
       ELSE \E conflict \in BOOLEAN :
            \* git rebase main replays the commits of the slot branch
            /\ conflict => commits[slotName] # "none"
            /\ IF conflict
               THEN syncOnConflict(slotName)
               ELSE /\ behind' = behind \ {slotName}
                    \* replayed commits are no longer those of origin/<branch>
                    /\ commits' = [commits EXCEPT ![slotName] =
                                      IF @ = "pushed" THEN "ahead" ELSE @]
                    /\ out' = [NoOut EXCEPT !.cmd = "sync", !.slot = slotName,
                                            !.merge = "ok"]
                    /\ UNCHANGED <<file, dirs, branches, dirty, containers,
                                   tmux, slotPorts, rebase>>
    /\ UNCHANGED <<mainPorts, originMain, rewrite, clone, probeVars, listening, allocVars, concVars>>

\* counters that take a registry mismatch for a warning
verifyCounts_MismatchWarns(slotName) ==
    LET reg        == loadRegistry(file)
        slotNum    == IdOf(slotName).num
        slotBranch == currentBranch(slotName)
        noBase     == slotBranch = ""
        B(x)       == IF x THEN 1 ELSE 0
        registered == slotName \in DOMAIN reg.Slots
    IN  [errors   |-> B(dirs[slotName] # "worktree") + B(noBase),
         warnings |-> B(~noBase /\ slotName \in behind)
                      + B(~registered)
                      + B(Uncommitted(slotName))
                      + (IF registered
                         THEN B(reg.Slots[slotName].Project # Project)
                              + B(reg.Slots[slotName].Number # slotNum)
                              + B(reg.Slots[slotName].Branch # slotBranch)
                         ELSE 0)]

\* the counters of cmdVerify for a numbered slot
verifyCounts(slotName) ==
    LET reg        == loadRegistry(file)
        slotNum    == IdOf(slotName).num
        slotBranch == currentBranch(slotName)
        noBase     == slotBranch = ""
        B(x)       == IF x THEN 1 ELSE 0
        registered == slotName \in DOMAIN reg.Slots
    IN  [errors   |-> B(dirs[slotName] # "worktree")
                      + B(noBase)
                      + (IF registered
                         THEN B(reg.Slots[slotName].Project # Project)
                              + B(reg.Slots[slotName].Number # slotNum)
                              + B(reg.Slots[slotName].Branch # slotBranch)
                         ELSE 0),
         warnings |-> B(~noBase /\ slotName \in behind)
                      + B(~registered)
                      + B(Uncommitted(slotName))]

\* cmdVerify, run in the directory of slotName
cmdVerify(slotName) ==
    /\ dirs[slotName] = "worktree"
    /\ IF IdOf(slotName).name # ""
       THEN \* the directory name does not end in -<digits>: "could not
            \* detect slot number from directory name"
            Exit("verify", slotName, FALSE, 1)
       ELSE LET counts == verifyCounts(slotName)
            IN  out' = [NoOut EXCEPT
                           !.cmd = "verify", !.slot = slotName,
                           !.exit = IF counts.errors > 0 THEN 1 ELSE 0,
                           !.report = counts]
    /\ UNCHANGED <<mainPorts, originMain, rewrite, clone, probeVars, listening, allocVars, worldVars,
                   concVars>>

\* main receives commits the slot branches do not have
MainAdvance ==
    /\ behind # {s \in SlotNames : dirs[s] = "worktree"}
    /\ behind' = {s \in SlotNames : dirs[s] = "worktree"}
    /\ out' = NoOut
    /\ UNCHANGED <<mainPorts, originMain, rewrite, clone, probeVars, listening, allocVars, file, dirs,
                   branches, dirty, commits, containers, tmux, slotPorts,
                   rebase, concVars>>

\* git rebase --abort in the worktree, as cmdSync tells the user
RebaseAbort(slotName) ==
    /\ slotName \in rebase
    /\ rebase' = rebase \ {slotName}
    /\ dirty' = dirty \ {slotName}
    /\ out' = NoOut
    /\ UNCHANGED <<mainPorts, originMain, rewrite, clone, probeVars, listening, allocVars, file, dirs,
                   branches, commits, containers, tmux, slotPorts, behind,
                   concVars>>

SyncNext ==
    \/ \E arg \in NewArgs : cmdNew(arg)
    \/ \E s \in SlotNames : cmdSync(s)
    \/ \E s \in SlotNames : cmdVerify(s)
    \/ \E s \in SlotNames : EditFile(s)
    \/ \E s \in SlotNames : Commit(s)
    \/ \E s \in SlotNames : Push(s)
    \/ MainAdvance
    \/ \E s \in SlotNames : RebaseAbort(s)

\* slots are created, worked in, synced with main and verified
SpecSync == Init /\ [][SyncNext]_vars

\* C15 as claimed: when sync finds an uncommitted change, or the rebase
\* hits a conflict, sync exits non-zero and the working copy is as before:
\* no rebase in progress, no file modified, same commits.
C15_SyncLeavesPreRebaseState ==
    [][(/\ out'.cmd = "sync"
        /\ out'.slot \in dirty \/ out'.merge = "conflict")
       => (out'.exit # 0 /\ UNCHANGED worldVars)]_vars

\* C15: when sync finds an uncommitted change it exits non-zero and the
\* working copy is as before; when the rebase hits a conflict it exits
\* non-zero and leaves the rebase stopped in the working copy, with the
\* conflicting files modified, and nothing else changed.
C15_SyncLeavesConflictInPlace ==
    [][out'.cmd = "sync" =>
        /\ out'.slot \in dirty => (out'.exit # 0 /\ UNCHANGED worldVars)
        /\ out'.merge = "conflict" =>
              /\ out'.exit # 0
              /\ out'.slot \in rebase'
              /\ out'.slot \in dirty'
              /\ UNCHANGED <<file, dirs, branches, commits, containers,
                             behind>>]_vars

\* C15 witness: sync stopped on a rebase conflict, the rebase is in progress
C15_Witness ==
    /\ out.cmd = "sync"
    /\ out.merge = "conflict"
    /\ out.exit = 1
    /\ out.slot \in rebase
    /\ out.slot \in behind

\* C20 as claimed: verify run in a slot that create has just produced
\* reports zero errors and zero warnings and exits zero.
C20_FreshSlotVerifiesClean ==
    [][(/\ out'.cmd = "verify"
        /\ out.cmd = "new" /\ out.exit = 0 /\ out.slot = out'.slot)
       => (/\ out'.exit = 0
           /\ out'.report = [errors |-> 0, warnings |-> 0])]_vars

(* ------------------------------ SpecProbe ----------------------------- *)

\* the highest port net.Listen accepts (65535, scaled to the model's ports)
MaxPort == BasePort + MaxMainPorts + MaxListenSpan + 1

\* the number of values of slotPort before slotPort++ wraps round (the width
\* of int, scaled to the model's ports)
IntWrap == MaxPort + 3

\* isPortAvailable on a host that may refuse every bind: net.Listen fails
\* for a port that is listened on and for a port outside the valid range
bindSucceeds(port) ==
    /\ ~bindRefused
    /\ port <= MaxPort
    /\ isPortAvailable(port, listening)

ProbeInit ==
    /\ mainPorts \in (SUBSET MainPortSet) \ {{}}
    /\ listening \in SUBSET ListenSet
    /\ batchNum \in 1..MaxSlotNum
    /\ portMap = <<>>
    /\ probed = <<>>
    /\ probe = NoProbe
    /\ bindRefused \in BOOLEAN
    /\ RestInit
    /\ RewriteIdle
    /\ ConcIdle

\* "for mainPort, varName := range portVars { slotPort := mainPort + slotNum"
ProbeStart(mainPort) ==
    /\ probe = NoProbe
    /\ mainPort \in mainPorts \ DOMAIN portMap
    /\ probe' = [mainPort |-> mainPort, slotPort |-> mainPort + batchNum]
    /\ UNCHANGED <<mainPorts, originMain, rewrite, clone, listening, allocVars, bindRefused, worldVars,
                   out, concVars>>

\* "for !isPortAvailable(slotPort) { slotPort++ }": one turn of the loop
ProbeRefused ==
    /\ probe # NoProbe
    /\ ~bindSucceeds(probe.slotPort)
    /\ probe' = [probe EXCEPT !.slotPort = (@ + 1) % IntWrap]
    /\ UNCHANGED <<mainPorts, originMain, rewrite, clone, listening, allocVars, bindRefused, worldVars,
                   out, concVars>>

\* the loop ends: "portMap[mainPort] = slotPort"
ProbeAssigned ==
    /\ probe # NoProbe
    /\ bindSucceeds(probe.slotPort)
    /\ portMap' = portMap @@ (probe.mainPort :> probe.slotPort)
    /\ probed' = probed @@ (probe.mainPort :> listening)
    /\ probe' = NoProbe
    /\ UNCHANGED <<mainPorts, originMain, rewrite, clone, listening, batchNum, bindRefused, worldVars,
                   out, concVars>>

ProbeNext ==
    \/ \E mainPort \in MainPortSet : ProbeStart(mainPort)
    \/ ProbeRefused
    \/ ProbeAssigned

\* the allocation loop of scanAndAllocatePorts, one probe at a time; the
\* process keeps running
SpecProbe == ProbeInit /\ [][ProbeNext]_vars /\ WF_vars(ProbeNext)

\* C17 as claimed: the probing for a main port always comes to an end, also
\* when every candidate is refused.
C17_ProbingTerminates == (probe # NoProbe) ~> (probe = NoProbe)

\* ---------------------------------------------------------------------
\* SpecVerify: verify against a registry file that is also edited by hand

\* a project name that is not the one detectProject returns
OtherProject == "lib"

\* a branch name no slot branch has
OtherBranch == "main"

EntryFields == {"Project", "Number", "Branch"}

\* the registry file is plain JSON under ~/.config/slots: an entry of it is
\* edited outside slot-cli, so that one of the fields cmdVerify compares no
\* longer says what is on disk
EditEntry(slotName, field) ==
    /\ file.exists
    /\ "slots" \in file.keys
    /\ slotName \in DOMAIN file.slots
    /\ file' = [file EXCEPT !.slots[slotName] =
                   CASE field = "Project" -> [@ EXCEPT !.Project = OtherProject]
                     [] field = "Number"  -> [@ EXCEPT !.Number = IdOf(slotName).num + 1]
                     [] field = "Branch"  -> [@ EXCEPT !.Branch = OtherBranch]]
    /\ file' # file
    /\ out' = NoOut
    /\ UNCHANGED <<mainPorts, originMain, rewrite, clone, probeVars, listening, allocVars, dirs,
                   branches, dirty, commits, containers, tmux, slotPorts,
                   syncVars, concVars>>

VerifyNext ==
    \/ \E arg \in NewArgs : cmdNew(arg)
    \/ \E s \in SlotNames : cmdVerify(s)
    \/ \E s \in SlotNames, f \in EntryFields : EditEntry(s, f)
    \/ \E s \in SlotNames : EditFile(s)
    \/ MainAdvance

\* slots are created and verified while main advances and the registry file
\* is edited
SpecVerify == Init /\ [][VerifyNext]_vars

\* the registry entry of the slot disagrees with the directory on project,
\* number or branch
Mismatch(slotName) ==
    /\ file.exists
    /\ "slots" \in file.keys
    /\ slotName \in DOMAIN file.slots
    /\ \/ file.slots[slotName].Project # Project
       \/ file.slots[slotName].Number # IdOf(slotName).num
       \/ file.slots[slotName].Branch # BranchName(IdOf(slotName))

\* C21: when verify examines a slot whose registry entry disagrees with the
\* directory on project, number or branch, it counts at least one error and
\* exits non-zero; when the slot's branch is behind main and nothing
\* disagrees, it counts a warning, no error, and exits zero.
C21_VerifyFailsOnMismatchNotOnBehind ==
    [][(out'.cmd = "verify" /\ IdOf(out'.slot).name = "") =>
        /\ Mismatch(out'.slot) =>
              out'.report.errors >= 1 /\ out'.exit # 0
        /\ (out'.slot \in behind /\ ~Mismatch(out'.slot)) =>
              /\ out'.report.errors = 0
              /\ out'.report.warnings >= 1
              /\ out'.exit = 0]_vars

\* verify has run on a slot that is behind main and whose entry carries a
\* wrong number: one error, and the warning for being behind
C21_Witness ==
    /\ out.cmd = "verify"
    /\ out.slot \in behind
    /\ out.slot \in DOMAIN file.slots
    /\ file.slots[out.slot].Number # IdOf(out.slot).num
    /\ file.slots[out.slot].Project = Project
    /\ file.slots[out.slot].Branch = BranchName(IdOf(out.slot))
    /\ out.report.errors = 1
    /\ out.report.warnings >= 1
    /\ out.exit = 1

\* ---------------------------------------------------------------------
\* SpecRewrite: the rewriting of a slot's files

\* most lines a file holds
MaxLines == 2

\* most characters a slot name holds
MaxNameLen == 2

\* most runs of a rewrite over one file
MaxRuns == 2

\* characters of a slot name: a lower-case letter, an upper-case letter, a
\* character outside a-z, A-Z, 0-9 and "-", a dash, a digit
Chars == {"a", "B", "_", "-", "1"}

\* the characters the pattern [^a-z0-9-] does not match
KeptChars == {"a", "-", "1"}

SeqsUpTo(S, n) == UNION {[1..k -> S] : k \in 0..n}

NameStrings == SeqsUpTo(Chars, MaxNameLen) \ {<<>>}

\* strings.ToLower on one character
ToLower(c) == IF c = "B" THEN "b" ELSE c

\* dockerName := strings.ToLower(
\*     regexp.MustCompile(`[^a-z0-9-]`).ReplaceAllString(slotName, "-"))
dockerName(slotName) ==
    [i \in 1..Len(slotName) |->
        ToLower(IF slotName[i] \in KeptChars THEN slotName[i] ELSE "-")]

\* fmt.Sprintf("%d", n)
RECURSIVE Digits(_)
Digits(n) == IF n < 10 THEN <<n>> ELSE Append(Digits(n \div 10), n % 10)

IsPrefix(p, s) == Len(p) <= Len(s) /\ SubSeq(s, 1, Len(p)) = p

\* a number that begins with the digits of the first main port
LongPort == BasePort * 10 + 1

ContentPorts == MainPortSet \cup {LongPort}

\* one line of a file: COMPOSE_PROJECT_NAME=<name> ("compose"),
\* KEY=<digits> ("assign"), KEY="<digits>" ("quoted"),
\* URL=http://localhost:<digits> ("localhost"), "dev": "next dev -p <digits>"
\* ("flag"), container_name: <name> ("container"),
\* container_name: ${COMPOSE_PROJECT_NAME:-<name>}-db ("template")
Line(kind, digits, name) == [kind |-> kind, digits |-> digits, name |-> name]

PortLines(kinds) == {Line(k, Digits(p), <<>>) : k \in kinds, p \in ContentPorts}

NameLines(kinds) == {Line(k, <<>>, <<"a">>) : k \in kinds}

\* the lines of a .env file, of package.json or .mcp.json, of
\* docker-compose.yml
LinesOf(fileKind) ==
    CASE fileKind = "env" ->
           NameLines({"compose"}) \cup PortLines({"assign", "quoted", "localhost"})
      [] fileKind = "config" -> PortLines({"localhost", "flag"})
      [] fileKind = "compose" -> NameLines({"container", "template"})

FileKinds == {"env", "config", "compose"}

\* the port maps scanAndAllocatePorts returns when nothing is listening
PortMaps ==
    {scanAndAllocatePorts(ports, n, {}) :
        ports \in SUBSET MainPortSet, n \in 1..MaxSlotNum}

\* the orders "for mainPort, slotPort := range portMap" can take
Orders(M) ==
    {o \in [1..Cardinality(DOMAIN M) -> DOMAIN M] :
        \A i, j \in 1..Cardinality(DOMAIN M) : i # j => o[i] # o[j]}

\* strings.ReplaceAll(s, prefix + "%d" of mainPort, prefix + "%d" of slotPort)
\* on the digits that follow the prefix
replacePrefixed(digits, mainPort, slotPort) ==
    IF IsPrefix(Digits(mainPort), digits)
    THEN Digits(slotPort) \o SubSeq(digits, Len(Digits(mainPort)) + 1, Len(digits))
    ELSE digits

\* strings.ReplaceAll(s, "=\"%d\"" of mainPort, "=\"%d\"" of slotPort) on the
\* digits between the quotes
replaceQuoted(digits, mainPort, slotPort) ==
    IF digits = Digits(mainPort) THEN Digits(slotPort) ELSE digits

\* the three ReplaceAll of updateSlotEnvFiles for one entry of the map
envReplace(line, mainPort, slotPort) ==
    CASE line.kind \in {"assign", "localhost"} ->
           [line EXCEPT !.digits = replacePrefixed(@, mainPort, slotPort)]
      [] line.kind = "quoted" ->
           [line EXCEPT !.digits = replaceQuoted(@, mainPort, slotPort)]
      [] OTHER -> line

\* the two ReplaceAll of updateConfigFiles for one entry of the map
configReplace(line, mainPort, slotPort) ==
    CASE line.kind \in {"localhost", "flag"} ->
           [line EXCEPT !.digits = replacePrefixed(@, mainPort, slotPort)]
      [] OTHER -> line

\* "Replace or add COMPOSE_PROJECT_NAME"
setComposeName(content, name) ==
    IF \E i \in 1..Len(content) : content[i].kind = "compose"
    THEN [i \in 1..Len(content) |->
             IF content[i].kind = "compose"
             THEN [content[i] EXCEPT !.name = name] ELSE content[i]]
    ELSE <<Line("compose", <<>>, name)>> \o content

\* updateSlotEnvFiles on the content of one .env file, the map ranged over
\* in the given order
RECURSIVE envPorts(_, _, _)
envPorts(content, M, order) ==
    IF order = <<>> THEN content
    ELSE envPorts([i \in 1..Len(content) |->
                      envReplace(content[i], Head(order), M[Head(order)])],
                  M, Tail(order))

updateSlotEnvFiles(content, M, order, slotName) ==
    envPorts(setComposeName(content, dockerName(slotName)), M, order)

\* updateConfigFiles on the content of package.json or .mcp.json
RECURSIVE updateConfigFiles(_, _, _)
updateConfigFiles(content, M, order) ==
    IF order = <<>> THEN content
    ELSE updateConfigFiles([i \in 1..Len(content) |->
                      configReplace(content[i], Head(order), M[Head(order)])],
                  M, Tail(order))

\* updateDockerComposeFiles on the content of one docker-compose.yml:
\* (container_name:\s*)([a-zA-Z0-9_-]+) matches a plain name and not "${"
updateDockerComposeFiles(content, slotName) ==
    [i \in 1..Len(content) |->
        IF content[i].kind = "container"
        THEN Line("template", <<>>, dockerName(slotName))
        ELSE content[i]]

RewriteInit ==
    /\ mainPorts = {BasePort}
    /\ listening = {}
    /\ batchNum = 0
    /\ portMap = <<>>
    /\ probed = <<>>
    /\ RestInit
    /\ ProbeIdle
    /\ ConcIdle
    /\ clone = NoClone
    /\ \E fileKind \in FileKinds :
         rewrite \in [file     : {fileKind},
                      slotName : NameStrings,
                      ports    : PortMaps,
                      content  : SeqsUpTo(LinesOf(fileKind), MaxLines),
                      first    : {<<>>},
                      result   : {<<>>},
                      runs     : {0}]

\* one more run of a rewrite over the file
Rewritten(result) ==
    /\ rewrite.runs < MaxRuns
    /\ rewrite' = [rewrite EXCEPT
                      !.result = result,
                      !.first = IF rewrite.runs = 0 THEN result ELSE @,
                      !.runs = @ + 1]
    /\ UNCHANGED <<mainPorts, originMain, clone, probeVars, listening, allocVars, worldVars, out,
                   concVars>>

\* what a run reads: the file as the last run left it
Current == IF rewrite.runs = 0 THEN rewrite.content ELSE rewrite.result

RewriteEnv ==
    /\ rewrite.file = "env"
    /\ \E order \in Orders(rewrite.ports) :
         Rewritten(updateSlotEnvFiles(Current, rewrite.ports, order,
                                      rewrite.slotName))

RewriteConfig ==
    /\ rewrite.file = "config"
    /\ \E order \in Orders(rewrite.ports) :
         Rewritten(updateConfigFiles(Current, rewrite.ports, order))

RewriteCompose ==
    /\ rewrite.file = "compose"
    /\ Rewritten(updateDockerComposeFiles(Current, rewrite.slotName))

RewriteNext ==
    \/ RewriteEnv
    \/ RewriteConfig
    \/ RewriteCompose

\* a file of a slot is rewritten, and rewritten again with the same port map
\* and slot name
SpecRewrite == RewriteInit /\ [][RewriteNext]_vars

\* C22 as claimed: for every file content, port map and slot name, rewriting
\* the file a second time with the same port map and slot name leaves it
\* exactly as the first rewrite left it.
C22_RewriteIsIdempotent ==
    rewrite.runs >= 2 => rewrite.result = rewrite.first

\* the port lines of a file's content
PortLinesOnly(content) ==
    SelectSeq(content, LAMBDA line : line.kind \notin {"compose"})

\* a port line in which an occurrence of a main port reads its slot port and
\* every other number is as it was
Replaced(line, M) ==
    IF \E p \in DOMAIN M : line.digits = Digits(p)
    THEN [line EXCEPT !.digits =
             Digits(M[CHOOSE p \in DOMAIN M : line.digits = Digits(p)])]
    ELSE line

\* C23 as claimed: after an environment file is rewritten with port map M,
\* every occurrence of a main port p (bare, quoted, after "localhost:") reads
\* M[p] and no other number is changed, whatever the order of the map's
\* entries: a value already replaced is not replaced again when M[p] is
\* itself a main port, and a longer number that begins with the digits of p
\* is not altered.
C23_EveryPortReplacedOnce ==
    (rewrite.file = "env" /\ rewrite.runs >= 1) =>
        PortLinesOnly(rewrite.first) =
            [i \in 1..Len(PortLinesOnly(rewrite.content)) |->
                Replaced(PortLinesOnly(rewrite.content)[i], rewrite.ports)]

\* the resource-naming key as described: lower-cased, then every character
\* outside a-z, 0-9 and "-" replaced by "-"
LoweredKey(slotName) ==
    [i \in 1..Len(slotName) |->
        IF ToLower(slotName[i]) \in KeptChars \cup {"b"}
        THEN ToLower(slotName[i]) ELSE "-"]

\* C24 as claimed: after an environment file is rewritten it holds exactly
\* one COMPOSE_PROJECT_NAME line, and its value is the slot name lower-cased
\* with every character outside a-z, 0-9 and "-" replaced by "-" (letters
\* are kept and only lower-cased).
C24_OneKeyLineLowerCased ==
    (rewrite.file = "env" /\ rewrite.runs >= 1) =>
        LET keys == SelectSeq(rewrite.first, LAMBDA line : line.kind = "compose")
        IN  /\ Len(keys) = 1
            /\ keys[1].name = LoweredKey(rewrite.slotName)

\* ---------------------------------------------------------------------
\* SpecNaming: the container names of a project and of two of its slots

\* docker-compose.yml and .env of a repository; the .env file may be absent
ProjectFiles ==
    [compose   : SeqsUpTo(NameLines({"container", "template"}), MaxLines) \ {<<>>},
     envExists : BOOLEAN,
     env       : SeqsUpTo(NameLines({"compose"}), 1)]

\* cmdNew's "if len(portMap) > 0 { updateSlotEnvFiles ...
\* updateDockerComposeFiles }" on the files the new worktree holds:
\* docker-compose.yml as checked out, .env as copied by copyGitignored
provision(files, ports, order, slotName) ==
    IF DOMAIN ports = {} THEN files
    ELSE [compose   |-> updateDockerComposeFiles(files.compose, slotName),
          envExists |-> files.envExists,
          env       |-> IF files.envExists
                        THEN updateSlotEnvFiles(files.env, ports, order, slotName)
                        ELSE files.env]

\* the name docker compose gives the container of one container_name line:
\* ${COMPOSE_PROJECT_NAME:-<name>}-db takes the value of the .env file, or
\* <name> when there is none
containerName(line, files) ==
    IF line.kind = "container" THEN line.name
    ELSE LET keys == SelectSeq(files.env, LAMBDA l : l.kind = "compose")
         IN  (IF files.envExists /\ keys # <<>> THEN keys[Len(keys)].name
              ELSE line.name) \o <<"-", "d", "b">>

containerNames(files) ==
    {containerName(files.compose[i], files) : i \in 1..Len(files.compose)}

NamingInit ==
    /\ mainPorts = {BasePort}
    /\ listening = {}
    /\ batchNum = 0
    /\ portMap = <<>>
    /\ probed = <<>>
    /\ RestInit
    /\ ProbeIdle
    /\ ConcIdle
    /\ clone = NoClone
    /\ rewrite \in [file  : {"project"},
                    main  : ProjectFiles,
                    ports : {<<>>, scanAndAllocatePorts({BasePort}, 1, {})},
                    names : {n \in [1..2 -> NameStrings] : n[1] # n[2]},
                    slots : {<<>>}]

\* create of the slot rewrite.names[i]
ProvisionSlot(i) ==
    /\ i \notin DOMAIN rewrite.slots
    /\ \E order \in Orders(rewrite.ports) :
         rewrite' = [rewrite EXCEPT !.slots =
                        @ @@ (i :> provision(rewrite.main, rewrite.ports, order,
                                             rewrite.names[i]))]
    /\ UNCHANGED <<mainPorts, originMain, clone, probeVars, listening, allocVars, worldVars, out,
                   concVars>>

NamingNext == \E i \in 1..2 : ProvisionSlot(i)

\* two slots with different names are created from one project
SpecNaming == NamingInit /\ [][NamingNext]_vars

\* C25 as claimed: once slots of a project with container definitions are
\* provisioned, no container name of one slot is a container name of another
\* slot, and no container name of a slot is a container name of the main
\* repository.
C25_ContainerNamesDiffer ==
    /\ \A i, j \in DOMAIN rewrite.slots :
          i # j => containerNames(rewrite.slots[i])
                      \cap containerNames(rewrite.slots[j]) = {}
    /\ \A i \in DOMAIN rewrite.slots :
          containerNames(rewrite.slots[i]) \cap containerNames(rewrite.main) = {}

\* ---------------------------------------------------------------------
\* fix-ports and the allocation the tests describe

\* cmdFixPorts, "Calculate expected slot ports":
\*   for mainPort := range scanPorts(mainRepo) { portMap[mainPort] = mainPort + slotNum }
fixPortsMap(ports, slotNum) == [mainPort \in ports |-> mainPort + slotNum]

\* C27 as claimed: for a numbered slot that create has just provisioned, the
\* port map fix-ports recomputes from the same project files, the same slot
\* number and the same listening ports is the map create allocated.
C27_FixPortsRecomputesCreateMap ==
    [][(/\ out'.cmd = "new"
        /\ out'.exit = 0
        /\ IdOf(out'.slot).name = ""
        /\ dirs'[out'.slot] = "worktree") =>
            fixPortsMap(mainPorts, IdOf(out'.slot).num) = slotPorts'[out'.slot]]_vars

\* the smallest port not below the candidate that is not taken
RECURSIVE smallestFree(_, _)
smallestFree(port, taken) ==
    IF port \notin taken THEN port ELSE smallestFree(port + 1, taken)

Min(S) == CHOOSE x \in S : \A y \in S : x <= y

\* the allocation TestAllocateSlotPorts expects of allocateSlotPorts: main
\* ports in ascending order, each given the smallest port from main +
\* discriminator up that is no main port, not yet assigned and not listening
RECURSIVE allocateAscending(_, _, _, _, _)
allocateAscending(todo, done, ports, slotNum, live) ==
    IF todo = {} THEN done
    ELSE LET mainPort == Min(todo)
             slotPort == smallestFree(mainPort + slotNum,
                                      ports \cup Range(done) \cup live)
         IN  allocateAscending(todo \ {mainPort}, done @@ (mainPort :> slotPort),
                               ports, slotNum, live)

\* C28 as claimed: a finished allocation batch, made while the listening
\* ports did not change, is the map that handles the main ports in ascending
\* order and gives each the smallest port not below main + discriminator
\* that is not a main port, not already assigned in the batch and not
\* listening.
C28_AllocationIsAscendingSmallestFree ==
    (/\ DOMAIN portMap = mainPorts
     /\ \A mainPort \in mainPorts : probed[mainPort] = listening) =>
        portMap = allocateAscending(mainPorts, <<>>, mainPorts, batchNum, listening)

\* ---------------------------------------------------------------------
\* the path of a slot, and the project of a slot entry

\* filepath.Dir and filepath.Join on a path's components
Dir(path) == SubSeq(path, 1, Len(path) - 1)

Join(dir, name) == Append(dir, name)

\* cmdNew: slotPath = filepath.Join(filepath.Dir(mainRepo), slotName)
newSlotPath(mainRepo, slotName) == Join(Dir(mainRepo), slotName)

\* cmdDelete: slotPath = filepath.Join(filepath.Dir(mainRepo), slotName)
deleteSlotPath(mainRepo, slotName) == Join(Dir(mainRepo), slotName)

\* cmdClean's orphan scan: the directories it looks for to decide whether the
\* entry is an orphan: filepath.Join(filepath.Dir(projectCfg.Path), slotName),
\* and none when the entry's project is not in reg.Projects
orphanSlotDirs(reg, slotName) ==
    IF reg.Slots[slotName].Project \in DOMAIN reg.Projects
    THEN {Join(Dir(reg.Projects[reg.Slots[slotName].Project].Path), slotName)}
    ELSE {}

\* C29 as claimed: when create has made a slot, the directory it made, the
\* directory delete removes and the directory orphan detection checks for
\* the slot's entry are one path, the parent of the project's registered
\* path joined with <project>-<identifier>.
C29_OnePathForCreateDeleteOrphan ==
    [][(out'.cmd = "new" /\ out'.exit = 0) =>
        /\ deleteSlotPath(MainRepo, out'.slot) = newSlotPath(MainRepo, out'.slot)
        /\ out'.slot \in DOMAIN loadRegistry(file').Slots
        /\ orphanSlotDirs(loadRegistry(file'), out'.slot)
              = {newSlotPath(MainRepo, out'.slot)}]_vars

\* C30 as claimed: every slot entry of the registry names a project that is
\* in the registry's projects map.
C30_SlotProjectIsRegistered ==
    \A s \in DOMAIN loadRegistry(file).Slots :
        loadRegistry(file).Slots[s].Project \in DOMAIN loadRegistry(file).Projects

\* ---------------------------------------------------------------------
\* SpecProjects: the project entries of the registry

\* group ids: the one detectGroupFromPath finds, and one made by hand
GroupIds == {ProjectGroup, "team"}

\* the project names "group assign" is given
ProjectNames == {Project, OtherProject}

\* cmdGroup create <id> <name>
cmdGroupCreate(id) ==
    LET reg == loadRegistry(file)
    IN  /\ file' = saveRegistry([reg EXCEPT !.Groups = reg.Groups \cup {id}])
        /\ Exit("group create", "", FALSE, 0)
        /\ UNCHANGED <<mainPorts, originMain, rewrite, clone, probeVars, listening, allocVars,
                       dirs, branches, dirty, commits, containers, tmux,
                       slotPorts, syncVars, concVars>>

\* cmdGroup assign <project> <group-id>
cmdGroupAssign(projectName, groupID) ==
    LET reg == loadRegistry(file)
    IN  /\ IF projectName \notin DOMAIN reg.Projects
           THEN /\ Exit("group assign", "", FALSE, 1)   \* "project not found in registry"
                /\ UNCHANGED file
           ELSE IF groupID \notin reg.Groups
           THEN /\ Exit("group assign", "", FALSE, 1)   \* "group not found"
                /\ UNCHANGED file
           ELSE /\ file' = saveRegistry([reg EXCEPT
                               !.Projects[projectName].Group = groupID])
                /\ Exit("group assign", "", FALSE, 0)
        /\ UNCHANGED <<mainPorts, originMain, rewrite, clone, probeVars, listening, allocVars,
                       dirs, branches, dirty, commits, containers, tmux,
                       slotPorts, syncVars, concVars>>

ProjectsNext ==
    \/ cmdInit
    \/ \E arg \in NewArgs : cmdNew(arg)
    \/ \E id \in Ids, force \in BOOLEAN : cmdDelete(id, force)
    \/ \E s \in SlotNames, note \in Notes : cmdLock(s, note)
    \/ \E s \in SlotNames : cmdUnlock(s)
    \/ \E doClean \in BOOLEAN, force \in BOOLEAN : cmdClean(doClean, force)
    \/ \E id \in GroupIds : cmdGroupCreate(id)
    \/ \E p \in ProjectNames, id \in GroupIds : cmdGroupAssign(p, id)

\* every command that saves the registry, one after another
SpecProjects == Init /\ [][ProjectsNext]_vars

\* C31: a registered project stays registered with its path and base port
\* whatever command runs; its group changes only by "group assign"; and init
\* run on a registered project leaves the registry file as it is.
C31_ProjectEntryOnlyRegrouped ==
    [][/\ \A p \in DOMAIN loadRegistry(file).Projects :
             /\ p \in DOMAIN loadRegistry(file').Projects
             /\ loadRegistry(file').Projects[p].Path = loadRegistry(file).Projects[p].Path
             /\ loadRegistry(file').Projects[p].BasePort = loadRegistry(file).Projects[p].BasePort
             /\ loadRegistry(file').Projects[p].Group # loadRegistry(file).Projects[p].Group
                   => out'.cmd = "group assign"
       /\ (out'.cmd = "init" /\ Project \in DOMAIN loadRegistry(file).Projects)
             => file' = file]_vars

\* init has been run again on the project after its group was reassigned
C31_Witness ==
    /\ out.cmd = "init"
    /\ Project \in DOMAIN loadRegistry(file).Projects
    /\ loadRegistry(file).Projects[Project].Group # ProjectGroup
    /\ DOMAIN loadRegistry(file).Slots # {}

\* ---------------------------------------------------------------------
\* SpecClone: starting the slot's databases and cloning main's into them

\* most docker-compose files a slot holds
MaxComposeFiles == 2

\* waitForPostgres(slotPgPort, pgUser, pgPass, pgDB, 30)
PollTimeout == 30

\* POSTGRES_PORT of the main repository's .env files, and what create
\* allocates for it in slot 1 when nothing is listening
MainPgPort == BasePort

PgPortMap == scanAndAllocatePorts({MainPgPort}, 1, {})

\* how the .env file beside a docker-compose file gives POSTGRES_PORT: not at
\* all, POSTGRES_PORT=5432, POSTGRES_PORT="5432", POSTGRES_PORT='5432'
EnvKinds == {"none", "assign", "quoted", "single"}

\* the .env file beside a docker-compose file of the main repository
mainEnv(kind) ==
    IF kind = "none" THEN <<>> ELSE <<Line(kind, Digits(MainPgPort), <<>>)>>

\* the same file in the slot, copied and rewritten by create
slotEnv(kind) ==
    updateSlotEnvFiles(mainEnv(kind), PgPortMap, <<MainPgPort>>, <<"a", "-", "1">>)

\* strconv.Atoi on a string of digits
RECURSIVE Atoi(_)
Atoi(digits) ==
    IF digits = <<>> THEN 0
    ELSE 10 * Atoi(SubSeq(digits, 1, Len(digits) - 1)) + digits[Len(digits)]

\* readEnvVar(path, "POSTGRES_PORT"): the pattern
\* ^POSTGRES_PORT=["']?(\d+)["']? on the file, 0 when nothing matches
readEnvVar(content) ==
    LET ports == SelectSeq(content, LAMBDA line :
                     line.kind \in {"assign", "quoted", "single"})
    IN  IF ports = <<>> THEN 0 ELSE Atoi(ports[1].digits)

PgPorts == {MainPgPort} \cup Range(PgPortMap)

CloneCommands == {"new", "db-sync"}

CloneInit ==
    /\ mainPorts = {BasePort}
    /\ listening = {}
    /\ batchNum = 0
    /\ portMap = <<>>
    /\ probed = <<>>
    /\ RestInit
    /\ ProbeIdle
    /\ ConcIdle
    /\ rewrite = NoRewrite
    /\ clone \in [cmd        : CloneCommands,
                  kinds      : SeqsUpTo(EnvKinds, MaxComposeFiles) \ {<<>>},
                  idx        : {1},
                  pc         : {"file"},
                  i          : {0},
                  ready      : SUBSET PgPorts,
                  observed   : {{}},
                  timedOut   : {{}},
                  srcReady   : {{}},
                  cloned     : {{}},
                  reports    : {{}},
                  terminated : {{}},
                  dropped    : {{}},
                  deps       : {FALSE},
                  recorded   : {FALSE}]

CloneFrame ==
    UNCHANGED <<mainPorts, originMain, rewrite, probeVars, listening, allocVars, worldVars,
                out, concVars>>

slotPgPort == readEnvVar(slotEnv(clone.kinds[clone.idx]))

mainPgPort == readEnvVar(mainEnv(clone.kinds[clone.idx]))

\* isPostgresReady(port, ...): psql -c "SELECT 1" succeeds
isPostgresReady(port) == port \in clone.ready

\* "continue": on to the next docker-compose file, with what was printed
NextFile(report) ==
    clone' = [clone EXCEPT !.idx = @ + 1, !.pc = "file", !.i = 0,
                           !.reports = @ \cup report]

\* a step of the loop "for _, composeFile := range composeFiles" up to the
\* readiness poll, in startDockerAndClone (create) and in cmdDBSync
CloneFile ==
    /\ clone.pc = "file"
    /\ IF clone.idx > Len(clone.kinds)
       THEN clone' = [clone EXCEPT !.pc = IF clone.cmd = "new" THEN "deps" ELSE "done"]
       ELSE IF slotPgPort = 0
       THEN NextFile({<<clone.idx, "no POSTGRES_PORT">>})
       ELSE IF clone.cmd = "new"
       THEN \* startDockerCompose(composeDir), then waitForPostgres
            clone' = [clone EXCEPT !.pc = "wait", !.i = 0]
       ELSE IF mainPgPort = 0
       THEN NextFile({<<clone.idx, "no POSTGRES_PORT">>})
       ELSE IF ~isPostgresReady(mainPgPort)
       THEN NextFile({<<clone.idx, "main DB not running">>})
       ELSE IF ~isPostgresReady(slotPgPort)
       THEN clone' = [clone EXCEPT !.pc = "wait", !.i = 0,
                                   !.srcReady = @ \cup {clone.idx}]
       ELSE clone' = [clone EXCEPT !.pc = "clone",
                                   !.srcReady = @ \cup {clone.idx},
                                   !.observed = @ \cup {clone.idx}]
    /\ CloneFrame

\* a poll that checks once more than timeoutSecs times
waitReturns_OneMore(i, timeoutSecs) == i > timeoutSecs

\* waitForPostgres: "for i := 0; i < timeoutSecs; i++" has run out
waitReturns(i, timeoutSecs) == i >= timeoutSecs

\* what follows waitForPostgres: create goes on whatever it returned,
\* db-sync goes on to the clone only when it returned true
AfterWait(ready) ==
    IF clone.cmd = "new"
    THEN clone' = [clone EXCEPT
                      !.pc = "main",
                      !.observed = IF ready THEN @ \cup {clone.idx} ELSE @,
                      !.timedOut = IF ready THEN @ ELSE @ \cup {clone.idx}]
    ELSE IF ready
    THEN clone' = [clone EXCEPT !.pc = "clone", !.observed = @ \cup {clone.idx}]
    ELSE clone' = [clone EXCEPT !.idx = @ + 1, !.pc = "file", !.i = 0,
                                !.timedOut = @ \cup {clone.idx},
                                !.reports = @ \cup {<<clone.idx, "could not start slot DB">>}]

\* one iteration of waitForPostgres: a check, then a sleep of one second
PollCheck ==
    /\ clone.pc = "wait"
    /\ ~waitReturns(clone.i, PollTimeout)
    /\ IF isPostgresReady(slotPgPort)
       THEN AfterWait(TRUE)
       ELSE clone' = [clone EXCEPT !.i = @ + 1]
    /\ CloneFrame

\* waitForPostgres returns false
PollGiveUp ==
    /\ clone.pc = "wait"
    /\ waitReturns(clone.i, PollTimeout)
    /\ AfterWait(FALSE)
    /\ CloneFrame

\* startDockerAndClone: "if mainPgPort > 0 && isPostgresReady(mainPgPort ...)"
MainCheck ==
    /\ clone.pc = "main"
    /\ IF mainPgPort > 0 /\ isPostgresReady(mainPgPort)
       THEN clone' = [clone EXCEPT !.pc = "clone", !.srcReady = @ \cup {clone.idx}]
       ELSE NextFile({<<clone.idx, "main DB not running">>})
    /\ CloneFrame

\* cloneDatabase(mainPgPort, slotPgPort, ...): terminate the connections to
\* the target, drop and recreate it, pipe pg_dump of the source into it; every
\* psql needs the server it talks to
cloneDatabase ==
    /\ clone.pc = "clone"
    /\ IF ~isPostgresReady(slotPgPort)
       THEN NextFile({<<clone.idx, "failed to clone">>})
       ELSE clone' = [clone EXCEPT
                         !.idx = @ + 1, !.pc = "file", !.i = 0,
                         !.terminated = @ \cup {slotPgPort},
                         !.dropped = @ \cup {slotPgPort},
                         !.cloned = @ \cup {clone.idx},
                         !.reports = @ \cup
                             {<<clone.idx, IF isPostgresReady(mainPgPort)
                                           THEN "cloned" ELSE "failed to clone">>}]
    /\ CloneFrame

\* cmdNew after startDockerAndClone: installDeps(slotPath)
InstallDeps ==
    /\ clone.pc = "deps"
    /\ clone' = [clone EXCEPT !.pc = "registry", !.deps = TRUE]
    /\ CloneFrame

\* cmdNew: updateRegistryFull(...)
RecordSlot ==
    /\ clone.pc = "registry"
    /\ clone' = [clone EXCEPT !.pc = "done", !.recorded = TRUE]
    /\ CloneFrame

\* a postgres server starts answering on a port, or stops
DbUp(port) ==
    /\ clone.pc # "done"
    /\ port \notin clone.ready
    /\ clone' = [clone EXCEPT !.ready = @ \cup {port}]
    /\ CloneFrame

DbDown(port) ==
    /\ clone.pc # "done"
    /\ port \in clone.ready
    /\ clone' = [clone EXCEPT !.ready = @ \ {port}]
    /\ CloneFrame

CloneStep ==
    \/ CloneFile
    \/ PollCheck
    \/ PollGiveUp
    \/ MainCheck
    \/ cloneDatabase
    \/ InstallDeps
    \/ RecordSlot

CloneNext ==
    \/ CloneStep
    \/ \E port \in PgPorts : DbUp(port)
    \/ \E port \in PgPorts : DbDown(port)

\* create's startDockerAndClone with what follows it, and db-sync, step by
\* step, while database servers come up and go down
SpecClone == CloneInit /\ [][CloneNext]_vars

\* one docker-compose file, up to the return of the readiness poll
PollInit == CloneInit /\ Len(clone.kinds) = 1

PollStep ==
    \/ clone.pc = "file" /\ clone.idx = 1 /\ CloneFile
    \/ PollCheck
    \/ PollGiveUp

PollNext ==
    \/ PollStep
    \/ \E port \in PgPorts : DbUp(port)
    \/ \E port \in PgPorts : DbDown(port)

\* the readiness poll of one docker-compose file while database servers
\* come up and go down; the command keeps running
SpecPoll == PollInit /\ [][PollNext]_vars /\ WF_vars(PollStep)

\* C32 as claimed: a clone is started for a docker-compose file only when
\* the slot's database was observed ready and the main database was found
\* reachable; after a poll that timed out nothing is terminated or dropped.
C32_CloneOnlyAfterReady ==
    [][(clone'.pc = "clone" /\ clone.pc # "clone") =>
          /\ clone.idx \in clone'.observed
          /\ clone.idx \in clone'.srcReady
          /\ clone.idx \notin clone'.timedOut]_vars

\* C34: the readiness poll always returns; it never checks more than
\* PollTimeout times, it returns ready only on a check that succeeds and
\* not-ready only after PollTimeout failed checks.
C34_PollTerminates ==
    /\ [](clone.pc = "wait" => clone.i <= PollTimeout)
    /\ [][(clone.pc = "wait" /\ clone'.pc # "wait") =>
             IF clone.idx \in clone'.timedOut
             THEN clone.i = PollTimeout
             ELSE clone.i < PollTimeout /\ slotPgPort \in clone.ready]_vars
    /\ (clone.pc = "wait") ~> (clone.pc # "wait")

\* create's poll has returned not-ready after its last check
C34_Witness ==
    /\ clone.cmd = "new"
    /\ clone.pc = "main"
    /\ clone.timedOut = {1}
    /\ clone.i = PollTimeout

\* C33 as claimed: when create has finished, every docker-compose file was
\* processed, dependencies were installed and the slot was recorded, and for
\* every file whose database did not become ready the failure was reported
\* for that file.
C33_FailureReportedAndCreateGoesOn ==
    (clone.cmd = "new" /\ clone.pc = "done") =>
        /\ clone.idx = Len(clone.kinds) + 1
        /\ clone.deps
        /\ clone.recorded
        /\ \A k \in clone.timedOut :
              <<k, "could not start slot DB">> \in clone.reports

\* C35 as claimed: the database a clone drops and recreates is never on the
\* port of the main repository's database.
C35_SourceNeverDropped ==
    MainPgPort \notin clone.dropped

\* C37 as claimed: when done stops on a merge conflict, the slot's containers
\* and their volumes are as they were before done was invoked.
C37_DoneConflictKeepsContainers ==
    [][(out'.cmd = "done" /\ out'.merge = "conflict") =>
          containers' = containers]_vars
(* ------------------------------ SpecRemote ---------------------------- *)

\* as Init, in a repository that may have no remote main branch: one with no
\* remote at all, or whose remote main branch is neither main nor master
RemoteInit ==
    /\ mainPorts = {BasePort}
    /\ listening = {}
    /\ batchNum = 0
    /\ portMap = <<>>
    /\ probed = <<>>
    /\ file = NoFile
    /\ dirs = [s \in SlotNames |-> "none"]
    /\ branches = {}
    /\ dirty = {}
    /\ commits = [s \in SlotNames |-> "none"]
    /\ containers = {}
    /\ tmux = {}
    /\ slotPorts = [s \in SlotNames |-> <<>>]
    /\ behind = {}
    /\ rebase = {}
    /\ originMain \in BOOLEAN
    /\ out = NoOut
    /\ RewriteIdle
    /\ ProbeIdle
    /\ ConcIdle

RemoteNext ==
    \/ cmdInit
    \/ \E arg \in NewArgs : cmdNew(arg)
    \/ \E s \in SlotNames, note \in Notes : cmdLock(s, note)
    \/ \E doClean \in BOOLEAN, force \in BOOLEAN : cmdClean(doClean, force)
    \/ \E s \in SlotNames : EditFile(s)
    \/ \E s \in SlotNames : Commit(s)
    \/ \E s \in SlotNames : Push(s)
    \/ \E s \in SlotNames : MergeUpstream(s)

\* init, create, lock and clean while the worktrees are worked in, with and
\* without a remote main branch
SpecRemote == RemoteInit /\ [][RemoteNext]_vars

\* C38 as claimed: a worktree whose branch holds commits that are on no
\* remote branch is never classified clean by clean, and clean removes it
\* only as an unmerged worktree (which takes --force); this also when the
\* queries for the remote tracking branch or the remote main branch fail.
C38_LocalCommitsNeverClean ==
    [][out'.cmd = "clean" =>
        \A s \in SlotNames :
            LocalOnly(s) =>
                /\ s \in DOMAIN out'.report
                /\ out'.report[s] # "clean"
                /\ (out'.report[s] # "unmerged" => dirs'[s] = dirs[s])]_vars

(* ------------------------------ SpecTorn ------------------------------ *)

\* registries the file holds when the invocations start: the project
\* registered by init in its group, and an entry for every slot
TornStartFile(f) ==
    saveRegistry([loadRegistry(StartFile(f)) EXCEPT
        !.Groups = {ProjectGroup},
        !.Projects = (Project :> [BasePort |-> BasePort, Path |-> MainRepo,
                                  Group |-> ProjectGroup])])

TornInit ==
    /\ mainPorts = {BasePort}
    /\ listening = {}
    /\ batchNum = 0
    /\ portMap = <<>>
    /\ probed = <<>>
    /\ \E f \in [SlotNames -> {"unlocked", "locked"}] : file = TornStartFile(f)
    /\ dirs = [s \in SlotNames |-> "none"]
    /\ branches = {}
    /\ dirty = {}
    /\ commits = [s \in SlotNames |-> "none"]
    /\ containers = {}
    /\ tmux = {}
    /\ slotPorts = [s \in SlotNames |-> <<>>]
    /\ behind = {}
    /\ rebase = {}
    /\ originMain = TRUE
    /\ RewriteIdle
    /\ ProbeIdle
    /\ out = NoOut
    /\ pc = [p \in Invocations |-> "start"]
    /\ inv \in [Invocations -> Commands]
    /\ local = [p \in Invocations |-> EmptyRegistry]
    /\ saves = <<>>

\* os.WriteFile opens registryPath with O_TRUNC: the file is empty until the
\* data is written
WriteOpen(p) ==
    /\ pc[p] = "loaded"
    /\ Saves(inv[p], local[p])
    /\ file' = Unparseable
    /\ pc' = [pc EXCEPT ![p] = "writing"]
    /\ UNCHANGED <<mainPorts, originMain, rewrite, clone, probeVars, listening, allocVars, dirs, branches, dirty,
                   commits, containers, tmux, slotPorts, syncVars, out, inv, local, saves>>

\* os.WriteFile writes the data from offset 0; when another invocation has
\* written since the file was truncated, a longer tail of what it wrote may
\* stay behind the data
WriteData(p) ==
    /\ pc[p] = "writing"
    /\ file' \in {saveRegistry(ToSave(p))} \cup
                 (IF file = Unparseable THEN {} ELSE {Unparseable})
    /\ pc' = [pc EXCEPT ![p] = "saved"]
    /\ saves' = Append(saves, [p |-> p, ev |-> "save"])
    /\ UNCHANGED <<mainPorts, originMain, rewrite, clone, probeVars, listening, allocVars, dirs, branches, dirty,
                   commits, containers, tmux, slotPorts, syncVars, out, inv, local>>

TornNext ==
    \/ \E p \in Invocations : Load(p)
    \/ \E p \in Invocations : WriteOpen(p)
    \/ \E p \in Invocations : WriteData(p)
    \/ \E p \in Invocations : Return(p)

\* two invocations whose registry steps interleave freely, the save of one
\* being the two steps of os.WriteFile
SpecTorn == TornInit /\ [][TornNext]_vars

\* invocation p loaded the registry when the file could not be parsed
LoadedUnparsed(p) ==
    \E i \in 1..Len(saves) :
        saves[i].p = p /\ saves[i].ev = "load" /\ ~saves[i].parsed

\* the registry file holds the project and the group that were stored when
\* the invocations started, and every slot entry no invocation removes
KeepsStored(f) ==
    /\ Project \in DOMAIN f.projects
    /\ ProjectGroup \in f.groups
    /\ \A s \in SlotNames :
        (\A q \in Invocations : ~(inv[q].op = "remove" /\ inv[q].slot = s))
            => s \in DOMAIN f.slots

\* C36 as claimed: an invocation that loaded the registry while the file
\* could not be parsed never replaces the file with a registry that lacks a
\* project, a group or a slot entry that was stored before.
C36_UnparsedLoadNeverLosesEntries ==
    [][\A p \in Invocations :
        (pc[p] = "writing" /\ pc'[p] = "saved" /\ LoadedUnparsed(p)
            /\ file'.parses)
        => KeepsStored(file')]_vars

(* ------------------------------ SpecRace ------------------------------ *)

\* the invocation of delete or done whose steps are followed
Removers == {1}

\* no command has been started by the invocation
NoCommand == [op |-> "", slot |-> "", force |-> FALSE]

RaceInit ==
    /\ mainPorts = {BasePort}
    /\ listening = {}
    /\ batchNum = 0
    /\ portMap = <<>>
    /\ probed = <<>>
    /\ RestInit
    /\ RewriteIdle
    /\ ProbeIdle
    /\ pc = [p \in Removers |-> "idle"]
    /\ inv = [p \in Removers |-> NoCommand]
    /\ local = [p \in Removers |-> EmptyRegistry]
    /\ saves = <<>>

\* cmdDelete and cmdDone up to their first destructive step: the path is
\* looked for, "reg := loadRegistry()", "Check lock", "Check for uncommitted
\* changes"
RaceCheck(p, op, slotName, force) ==
    LET reg     == loadRegistry(file)
        blocked == IF op = "delete" THEN deleteBlocked(reg, slotName, force)
                   ELSE doneBlocked(reg, slotName, force)
    IN
    /\ pc[p] = "idle"
    /\ dirs[slotName] = "worktree"
    /\ IF blocked
       THEN /\ Exit(op, slotName, force, 1)
            /\ UNCHANGED <<pc, inv, local>>
       ELSE /\ pc' = [pc EXCEPT ![p] = "checked"]
            /\ inv' = [inv EXCEPT ![p] = [op |-> op, slot |-> slotName,
                                          force |-> force]]
            /\ local' = [local EXCEPT ![p] = reg]
            /\ out' = NoOut
    /\ UNCHANGED <<mainPorts, originMain, rewrite, clone, probeVars, listening, allocVars, worldVars, saves>>

\* cmdDelete and cmdDone from "Stop docker" on: stopDocker, for done the
\* merge, then worktree remove, branch -D and removeFromRegistry; the
\* registry loaded for the lock check is not looked at again
RaceRemove(p) ==
    LET slotName == inv[p].slot
        force    == inv[p].force
    IN
    /\ pc[p] = "checked"
    /\ pc' = [pc EXCEPT ![p] = "idle"]
    /\ \E conflict \in BOOLEAN :
        /\ conflict => (inv[p].op = "done" /\ commits[slotName] # "none")
        /\ IF conflict
           THEN doneOnConflict(slotName, force)
           ELSE /\ RemoveSlot(slotName)
                /\ Done(inv[p].op, slotName, force, 0, LocalOnly(slotName))
                /\ UNCHANGED tmux
    /\ UNCHANGED <<mainPorts, originMain, rewrite, clone, probeVars, listening, allocVars, inv, local, saves>>

RaceNext ==
    \/ \E arg \in NewArgs : cmdNew(arg)
    \/ \E s \in SlotNames, note \in Notes : cmdLock(s, note)
    \/ \E s \in SlotNames : cmdUnlock(s)
    \/ \E s \in SlotNames : EditFile(s)
    \/ \E s \in SlotNames : Commit(s)
    \/ \E p \in Removers, op \in {"delete", "done"}, s \in SlotNames,
          force \in BOOLEAN : RaceCheck(p, op, s, force)
    \/ \E p \in Removers : RaceRemove(p)

\* create, lock and unlock, one command at a time, while one delete or done
\* runs: commands may run between its checks and its removal steps
SpecRace == RaceInit /\ [][RaceNext]_vars

\* C39 as claimed: when delete or done reaches its first destructive step
\* for a slot whose lock command has completed, nothing of the slot is
\* removed: containers, directory, branch and registry entry stay.
C39_LockBeforeRemovalKeepsSlot ==
    [][\A p \in Removers :
        (pc[p] = "checked" /\ pc'[p] = "idle" /\ LockFlag(inv[p].slot))
        => /\ containers' = containers
           /\ dirs'[inv[p].slot] = dirs[inv[p].slot]
           /\ branches' = branches
           /\ inv[p].slot \in DOMAIN file'.slots]_vars

====
